---- MODULE Spec2Model ----
(***************************************************************************)
(* Verification model of the NTFS parser (tap-plugin-ntfs).                *)
(*                                                                         *)
(* The parts of the parser are modelled independently, each with its own   *)
(* specification over its own group of variables:                          *)
(*   SpecRun      NonResident::from_file, the run-list decoder             *)
(*   SpecBuilder  MftAttributeContent::builder for non-resident content    *)
(*   SpecResident MftAttributeContent::builder for resident content        *)
(*   SpecAttr     MftEntry::read_attributes / content_to_attribute         *)
(*   SpecSplit    the same on a Data attribute split over several entries  *)
(*   SpecNode     NtfsNode::from_entry and NtfsAttributes::find_filename   *)
(*   SpecTree     Ntfs::create_nodes followed by Ntfs::link_nodes          *)
(*   SpecFixup    MftEntry::to_builder, the fixed-up view of a record      *)
(*   SpecFree     Bitmap::new and freespace_builder                        *)
(*   SpecBoot     BootSector::from_file                                    *)
(*   SpecEntry    MftEntry::from_offset, is_valid and contents             *)
(*   SpecStandard StandardInformation::new                                 *)
(*   SpecList     AttributeList::new                                       *)
(*   SpecRunDoc   the run-list decoder on the documented byte strings      *)
(* The variables of the parts a specification does not exercise keep their *)
(* idle values.                                                            *)
(***************************************************************************)
EXTENDS Integers, Sequences, FiniteSets, Bags, TLC

VARIABLES
  \* ---- run-list decoder (attributecontent.rs, NonResident::from_file)
  data,                 \* bytes of the file from the run list position on
  pos,                  \* number of bytes consumed so far
  runs,                 \* Vec<RunList> built so far
  run_previous_offset,  \* the running offset accumulator
  dres,                 \* "idle" | "loop" | "ok" | "err"
  \* ---- non-resident builder (attributecontent.rs, builder)
  non_resident,         \* [vnc_start, runs] of the attribute
  builders,             \* [partition, zero, cluster_size] : what the content holds
  partition_size,       \* partition_builder.size()
  ri,                   \* index of the next run of the for loop
  total_size,           \* the destination cursor
  file_ranges,          \* FileRanges pushed so far
  bres,                 \* "idle" | "call" | "loop" | "ok" | "err" | "panic"
  \* ---- attribute reading (mftentry.rs, read_attributes)
  mft,                  \* entry id -> [ok, contents] : what entry(id) and contents() give
  mft_entries,          \* TRUE for Some(entries), FALSE for None
  self_entry,           \* the entry read_attributes is called on
  ci,                   \* index of the next content of the entry
  stack,                \* the content_to_attribute calls in progress
  attributes,           \* the attributes collected so far
  ares,                 \* "idle" | "run" | "done" | "overflow"
  \* ---- tree building (ntfs.rs, create_nodes and link_nodes)
  ei,                   \* the entry index of the loop of create_nodes
  entries_read,         \* entry id -> what entry(id) and from_entry found
  nodes_ids,            \* HashMap<u64, Vec<(Option<u64>, TreeNodeId)>>
  next_node,            \* the next TreeNodeId the tree hands out
  ntfs_node_id,         \* the node "ntfs"
  orphan_node_id,       \* the node "orphan"
  linked,               \* the keys of nodes_ids link_nodes has iterated over
  edges,                \* bag of <<parent, child>> : the add_child_from_id calls
  tphase,               \* "idle" | "create" | "link" | "done" | "overflow"
  \* ---- fixed-up view of a record (mftentry.rs, to_builder)
  record_size,          \* self.record_size
  sector_size,          \* self.sector_size
  entry_offset,         \* self.offset, the offset of the record in the MFT
  fixup_array_offset,   \* self.fixup_array_offset
  offset,               \* the cursor of the loop
  entry_ranges,         \* FileRanges pushed so far
  fres,                 \* "idle" | "loop" | "done"
  \* ---- resident builder (attributecontent.rs, resident_builder)
  attr_offset,          \* self.offset, the offset of the attribute in the entry
  resident,             \* [content_offset, content_size] of the attribute
  mft_entry_size,       \* self.mft_entry_builder.size()
  resident_ranges,      \* FileRanges pushed
  rres,                 \* "idle" | "call" | "ok" | the error returned
  \* ---- nodes of an entry (ntfs.rs, NtfsNode::from_entry)
  entry_id,             \* the entry id from_entry is given
  entry_flags,          \* entry.flags
  decoded,              \* what entry.read_attributes returns
  selected,             \* what find_filename returned, if it was called
  name,                 \* the base display name
  ntfs_nodes,           \* the Vec<NtfsNode> returned
  nres,                 \* "idle" | "call" | "done"
  \* ---- free space (unallocated.rs, freespace_builder; bitmap.rs, Bitmap::new)
  bitmap,               \* the bytes of $Bitmap
  bpb,                  \* [bytes_per_sector, sector_per_cluster] of the boot sector
  free_cluster_size,    \* the cluster_size freespace_builder is given
  current_cluster,      \* Bitmap::new: the cluster of the bit looked at
  cluster_start,        \* Bitmap::new: start of the range being built
  cluster_end,          \* Bitmap::new: end of the range being built
  unallocated,          \* Bitmap::new: ranges pushed so far
  free_i,               \* freespace_builder: index of the next cluster range
  current_offset,       \* freespace_builder: the destination cursor
  free_ranges,          \* freespace_builder: FileRanges pushed so far
  frres,                \* "idle" | "call" | "bitmap" | "ranges" | "done"
  \* ---- boot sector (bootsector.rs, BootSector::from_file)
  sector,               \* the fields of the 512 bytes read
  boot_sector,          \* the BootSector returned
  bsres,                \* "idle" | "call" | "ok" | "panic" | the BootSectorInvalid text
  \* ---- an MFT entry (mftentry.rs, from_offset, is_valid, contents)
  header,               \* the fields of the 42 bytes from_offset reads
  mft_entry,            \* the MftEntry from_offset returned
  valid,                \* what is_valid returned
  parsed_at,            \* offset -> what MftAttributeContent::from_file gives there
  contents_offset,      \* contents: the cursor of the loop (u32)
  entry_contents,       \* contents: the Vec built so far
  eres,                 \* "idle" | "call" | "parsed" | "checked" | "loop" | "done"
                        \* | "panic" | "diverges" | "MftUnusedEntry"
  \* ---- standard information (attributes/standard.rs, StandardInformation::new)
  std_size,             \* content.size()
  std_info,             \* the StandardInformation returned
  sres,                 \* "idle" | "call" | "ok" | the error returned
  \* ---- attribute list (attributes/list.rs, AttributeList::new)
  list_size,            \* content.size()
  items_at,             \* position -> what AttributeListItem::new gives there
  list_pos,             \* file.tell()
  list_attributes,      \* the Vec built so far
  lres                  \* "idle" | "loop" | "done" | "diverges"

runVars == <<data, pos, runs, run_previous_offset, dres>>
bldVars == <<non_resident, builders, partition_size, ri, total_size, file_ranges, bres>>
attrVars == <<mft, mft_entries, self_entry, ci, stack, attributes, ares>>
treeVars == <<ei, entries_read, nodes_ids, next_node, ntfs_node_id, orphan_node_id,
              linked, edges, tphase>>
fixVars == <<record_size, sector_size, entry_offset, fixup_array_offset, offset,
             entry_ranges, fres>>
resVars == <<attr_offset, resident, mft_entry_size, resident_ranges, rres>>
nodeVars == <<entry_id, entry_flags, decoded, selected, name, ntfs_nodes, nres>>
freeVars == <<bitmap, bpb, free_cluster_size, current_cluster, cluster_start, cluster_end,
              unallocated, free_i, current_offset, free_ranges, frres>>
bootVars == <<sector, boot_sector, bsres>>
entVars == <<header, mft_entry, valid, parsed_at, contents_offset, entry_contents, eres>>
stdVars == <<std_size, std_info, sres>>
listVars == <<list_size, items_at, list_pos, list_attributes, lres>>
lastVars == <<entVars, stdVars, listVars>>
moreVars == <<resVars, nodeVars, freeVars, bootVars, lastVars>>
vars == <<runVars, bldVars, attrVars, treeVars, fixVars, moreVars>>

\* Option<T>: None is the empty sequence, Some(x) the sequence of x alone
None == <<>>
Some(x) == <<x>>
Unwrap(o) == o[1]

(***************************************************************************)
(* Bounds of the model.                                                    *)
(***************************************************************************)
MaxBytes == 7       \* longest run-list byte string decoded
MaxRuns == 2        \* longest run list given to the builder
MaxRunLen == 2      \* largest run length (clusters) given to the builder
MaxRunOffset == 4   \* largest run offset (clusters) given to the builder
MaxVnc == 1         \* largest vnc_start given to the builder
MaxCluster == 2     \* largest cluster size (bytes) given to the builder
MaxPartition == 8   \* largest partition size (bytes)
WordBits == 10      \* width of the words standing for u64 / i64
MaxAttrEntries == 2 \* MFT entries of the attribute reading
MaxContents == 2    \* attributes per entry
MaxItems == 1       \* items per AttributeList
MaxAttrId == 1      \* largest attribute id
MaxDepth == 4       \* nested content_to_attribute calls the stack holds
EntryCount == 6     \* mft_entries.count() of the tree building
MaxStreams == 2     \* Data attributes of an entry with several streams
MaxRecord == 8      \* largest record size (bytes)
MaxSector == 4      \* largest sector size (bytes)
MaxFixupOffset == 2 \* largest fixup_array_offset
MaxAttrOffset == 3  \* largest offset of a resident attribute in its entry
MaxContentOffset == 3 \* largest content_offset of a resident attribute
MaxContentSize == 4 \* largest content_size of a resident attribute
MaxEntrySize == 6   \* largest size of the fixed-up view of an entry
MaxPiece == 2       \* largest size (bytes) of a piece of a split Data attribute
MaxDecoded == 3     \* most attributes read_attributes returns for an entry
MaxFlags == 3       \* largest value of the entry flags (bit 0 in use, bit 1 directory)
MaxBitmapBytes == 2 \* longest $Bitmap content (bytes)
MaxSectorsPerCluster == 2 \* largest sector_per_cluster of the boot sector
MaxTotalSectors == 2 \* largest total_sectors of the boot sector
U32Bits == 8        \* width of the words standing for u32
I8Bits == 5         \* width of the words standing for i8
MaxFirstAttribute == 2 \* largest first_attribute_offset of a record
MaxUsedSize == 4    \* largest small used_size of a record
MaxAttrLength == 2  \* largest small attribute length; the large ones are as close to 2^32
MaxStandardSize == 80 \* largest size (bytes) of a StandardInformation content
MaxListItems == 3   \* most whole items an AttributeList content holds
MaxNameBytes == 6   \* bytes of the name that follows the header of an item

\* Bytes the run lists are made of: the headers 0x00 (L=0), 0x01 (L=1,O=0),
\* 0x11 (L=1,O=1), 0x21 (L=1,O=2), 0xFF (L=15,O=15); the same bytes serve as
\* lengths and deltas, 0xFF giving the negative ones.
RunBytes == {0, 1, 17, 33, 255}

RECURSIVE SeqsUpTo(_, _)
SeqsUpTo(S, n) ==
  IF n = 0 THEN {<<>>}
  ELSE LET shorter == SeqsUpTo(S, n - 1)
       IN  shorter \cup {Append(s, x) : s \in {t \in shorter : Len(t) = n - 1}, x \in S}

IdleRun == /\ data = <<>>
           /\ pos = 0
           /\ runs = <<>>
           /\ run_previous_offset = 0
           /\ dres = "idle"

IdleBuilder == /\ non_resident = [vnc_start |-> 0, runs |-> <<>>]
               /\ builders = [partition |-> FALSE, zero |-> FALSE, cluster_size |-> None]
               /\ partition_size = 0
               /\ ri = 1
               /\ total_size = 0
               /\ file_ranges = <<>>
               /\ bres = "idle"

IdleAttr == /\ mft = <<>>
            /\ mft_entries = FALSE
            /\ self_entry = 0
            /\ ci = 1
            /\ stack = <<>>
            /\ attributes = <<>>
            /\ ares = "idle"

IdleTree == /\ ei = 0
            /\ entries_read = <<>>
            /\ nodes_ids = <<>>
            /\ next_node = 0
            /\ ntfs_node_id = 0
            /\ orphan_node_id = 0
            /\ linked = {}
            /\ edges = <<>>
            /\ tphase = "idle"

IdleFixup == /\ record_size = 0
             /\ sector_size = 0
             /\ entry_offset = 0
             /\ fixup_array_offset = 0
             /\ offset = 0
             /\ entry_ranges = <<>>
             /\ fres = "idle"

IdleResident == /\ attr_offset = 0
                /\ resident = [content_offset |-> 0, content_size |-> 0]
                /\ mft_entry_size = 0
                /\ resident_ranges = <<>>
                /\ rres = "idle"

IdleNode == /\ entry_id = 0
            /\ entry_flags = 0
            /\ decoded = <<>>
            /\ selected = <<>>
            /\ name = ""
            /\ ntfs_nodes = <<>>
            /\ nres = "idle"

IdleFree == /\ bitmap = <<>>
            /\ bpb = [bytes_per_sector |-> 0, sector_per_cluster |-> 0]
            /\ free_cluster_size = 0
            /\ current_cluster = 0
            /\ cluster_start = 0
            /\ cluster_end = 0
            /\ unallocated = <<>>
            /\ free_i = 1
            /\ current_offset = 0
            /\ free_ranges = <<>>
            /\ frres = "idle"

IdleBoot == /\ sector = <<>>
            /\ boot_sector = <<>>
            /\ bsres = "idle"

IdleEntry == /\ header = <<>>
             /\ mft_entry = <<>>
             /\ valid = <<>>
             /\ parsed_at = <<>>
             /\ contents_offset = 0
             /\ entry_contents = <<>>
             /\ eres = "idle"

IdleStandard == /\ std_size = 0
                /\ std_info = <<>>
                /\ sres = "idle"

IdleList == /\ list_size = 0
            /\ items_at = <<>>
            /\ list_pos = 0
            /\ list_attributes = <<>>
            /\ lres = "idle"

IdleLast == IdleEntry /\ IdleStandard /\ IdleList

IdleMore == IdleResident /\ IdleNode /\ IdleFree /\ IdleBoot /\ IdleLast

(***************************************************************************)
(* attributecontent.rs: pad_u64, pad_i64                                   *)
(***************************************************************************)
RECURSIVE LittleEndian(_)
LittleEndian(d) ==
  IF d = <<>> THEN 0 ELSE Head(d) + 256 * LittleEndian(Tail(d))

RECURSIVE Pow(_, _)
Pow(b, n) == IF n = 0 THEN 1 ELSE b * Pow(b, n - 1)

\* zero padding to 8 bytes, read as an unsigned little-endian integer
pad_u64(d) == LittleEndian(d)

\* padding with 0 whatever the high bit
pad_i64Unsigned(d) == LittleEndian(d)

\* padding with 0xff when the last (most significant) byte has its high bit
\* set, with 0 otherwise, read as a signed little-endian integer
pad_i64(d) ==
  IF d[Len(d)] >= 128 THEN LittleEndian(d) - Pow(256, Len(d))
  ELSE LittleEndian(d)

(***************************************************************************)
(* attributecontent.rs: NonResident::from_file, the loop over the run list *)
(***************************************************************************)
\* the length size taken from the high nibble
length_sizeHighNibble(byte) == byte \div 16

length_size(byte) == byte % 16
offset_size(byte) == byte \div 16

\* bytes [from+1 .. from+n] of the file
Slice(d, from, n) == [i \in 1..n |-> d[from + i]]

\* the run recorded for a delta (lines 257-263): offset 0 when the delta read
\* is 0, the accumulated offset otherwise
RunRecorded(run_offset, previous, run_length) ==
  IF run_offset = 0
    THEN [offset |-> 0, length |-> run_length]
    ELSE [offset |-> previous + run_offset, length |-> run_length]

\* the header stops the loop (lines 219-231)
HeaderBreaks(byte) ==
  \/ offset_size(byte) > 8
  \/ length_size(byte) > 8
  \/ length_size(byte) = 0

\* one iteration of the loop
RunListStep ==
  /\ dres = "loop"
  /\ UNCHANGED <<data, bldVars, attrVars, treeVars, fixVars, moreVars>>
  /\ IF pos >= Len(data)
       THEN \* read_exact of the header fails
            /\ dres' = "err"
            /\ UNCHANGED <<pos, runs, run_previous_offset>>
       ELSE LET byte == data[pos + 1]
                L == length_size(byte)
                O == offset_size(byte)
            IN  IF HeaderBreaks(byte)
                  THEN /\ dres' = "ok"
                       /\ pos' = pos + 1
                       /\ UNCHANGED <<runs, run_previous_offset>>
                  ELSE IF pos + 1 + L + O > Len(data)
                    THEN \* read_exact of the length or of the offset fails
                         /\ dres' = "err"
                         /\ pos' = Len(data)
                         /\ UNCHANGED <<runs, run_previous_offset>>
                    ELSE LET run_length == pad_u64(Slice(data, pos + 1, L))
                             run_offset ==
                               IF O = 0 THEN 0
                               ELSE pad_i64(Slice(data, pos + 1 + L, O))
                         IN  /\ pos' = pos + 1 + L + O
                             /\ IF run_length = 0
                                  THEN /\ dres' = "ok"
                                       /\ UNCHANGED <<runs, run_previous_offset>>
                                  ELSE /\ run_previous_offset' = run_previous_offset + run_offset
                                       /\ runs' = Append(runs,
                                             RunRecorded(run_offset, run_previous_offset, run_length))
                                       /\ dres' = "loop"

InitRun ==
  /\ IdleMore
  /\ data \in SeqsUpTo(RunBytes, MaxBytes)
  /\ pos = 0
  /\ runs = <<>>
  /\ run_previous_offset = 0
  /\ dres = "loop"
  /\ IdleBuilder
  /\ IdleAttr
  /\ IdleTree
  /\ IdleFixup

NextRun == RunListStep

SpecRun == InitRun /\ [][NextRun]_vars

(***************************************************************************)
(* The reference decoder of the run-list encoding: a header with L = 0,    *)
(* L > 8 or O > 8 and a run of length 0 end the list; O = 0 records a      *)
(* sparse run and leaves the running offset alone; any other O adds the    *)
(* sign-extended delta to the running offset and records the sum.          *)
(***************************************************************************)
RECURSIVE RefDecode(_, _, _, _)
RefDecode(d, p, running_offset, rs) ==
  IF p >= Len(d) THEN [res |-> "err", runs |-> rs]
  ELSE LET L == d[p + 1] % 16
           O == d[p + 1] \div 16
       IN  IF L = 0 \/ L > 8 \/ O > 8 THEN [res |-> "ok", runs |-> rs]
           ELSE IF p + 1 + L + O > Len(d) THEN [res |-> "err", runs |-> rs]
           ELSE LET len == LittleEndian(Slice(d, p + 1, L))
                    delta == IF O = 0 THEN 0 ELSE pad_i64(Slice(d, p + 1 + L, O))
                IN  IF len = 0 THEN [res |-> "ok", runs |-> rs]
                    ELSE IF O = 0
                      THEN RefDecode(d, p + 1 + L, running_offset,
                                     Append(rs, [offset |-> 0, length |-> len]))
                      ELSE RefDecode(d, p + 1 + L + O, running_offset + delta,
                                     Append(rs, [offset |-> running_offset + delta,
                                                 length |-> len]))

\* C1: NonResident::from_file decodes every run list as the reference decoder
\* does: it returns the same runs, a run whose offset size O is not 0 being
\* recorded at the running offset whatever its delta.
CE_C1 ==
  dres \in {"ok", "err"} =>
    /\ dres = RefDecode(data, 0, 0, <<>>).res
    /\ dres = "ok" => runs = RefDecode(data, 0, 0, <<>>).runs

(***************************************************************************)
(* attributecontent.rs: MftAttributeContent::builder on non-resident       *)
(* content.  u64 values are words of WordBits bits; an arithmetic overflow *)
(* panics in a build with overflow checks and wraps in a build without.    *)
(***************************************************************************)
U64 == Pow(2, WordBits)

\* `x as u64` of a signed word
AsU64(x) == x % U64

\* the runs and the attribute fields the builder is given
RunOffsets == (-1)..MaxRunOffset
RunLists == SeqsUpTo([offset : RunOffsets, length : 1..MaxRunLen], MaxRuns)

\* mft.rs: what MftEntries hands to every content it reads
\*   from_partition  : partition, zero builder and cluster size all present
\*   from_master_mft : none of them
BuilderSets ==
  {[partition |-> TRUE, zero |-> TRUE, cluster_size |-> Some(c)] : c \in 1..MaxCluster}
    \cup {[partition |-> FALSE, zero |-> FALSE, cluster_size |-> None]}

\* the destination range of a run (lines 115 and 124)
RunRange(total, run, cs) == [start |-> total, end |-> total + run.length * cs]

\* the source offset of a non-sparse run (lines 120, 131)
RunSource(run, cs) == AsU64(run.offset) * cs

\* the run is refused (line 126)
OffsetTooLarge(src, size) == src > size

\* a cursor that a sparse run does not advance
NextTotalSkipsSparse(total, run, cs) ==
  IF run.offset = 0 THEN total ELSE total + run.length * cs

\* the destination cursor after a run (line 133)
NextTotal(total, run, cs) == total + run.length * cs

\* builder(), up to the start of the loop (lines 62-71, 97-110)
BuilderStart ==
  /\ bres = "call"
  /\ UNCHANGED <<runVars, attrVars, treeVars, fixVars, moreVars, non_resident, builders, partition_size, ri, file_ranges>>
  /\ IF ~builders.partition \/ ~builders.zero \/ builders.cluster_size = None
       THEN \* NonResidentData, NonResidentAttributeZeroBuilder or ...ClusterSize
            /\ bres' = "err"
            /\ UNCHANGED total_size
       ELSE LET start == non_resident.vnc_start * Unwrap(builders.cluster_size)
            IN  \/ /\ start >= U64
                   /\ bres' = "panic"
                   /\ UNCHANGED total_size
                \/ /\ total_size' = start % U64
                   /\ bres' = "loop"

\* one iteration of the loop over the runs (lines 111-134)
BuilderStep ==
  /\ bres = "loop"
  /\ ri <= Len(non_resident.runs)
  /\ UNCHANGED <<runVars, attrVars, treeVars, fixVars, moreVars, non_resident, builders, partition_size>>
  /\ LET run == non_resident.runs[ri]
         cs == Unwrap(builders.cluster_size)
         range == RunRange(total_size, run, cs)
         src == RunSource(run, cs)
         next == NextTotal(total_size, run, cs)
         overflow == \/ range.end >= U64
                     \/ next >= U64
                     \/ run.offset # 0 /\ src >= U64
         wrapped == [start |-> range.start, end |-> range.end % U64]
     IN  \/ /\ overflow
            /\ bres' = "panic"
            /\ UNCHANGED <<ri, total_size, file_ranges>>
         \/ IF run.offset = 0
              THEN /\ file_ranges' = Append(file_ranges,
                        [range |-> wrapped, offset |-> 0, builder |-> "zero"])
                   /\ total_size' = next % U64
                   /\ ri' = ri + 1
                   /\ bres' = "loop"
              ELSE IF OffsetTooLarge(src % U64, partition_size)
                THEN /\ bres' = "err"
                     /\ UNCHANGED <<ri, total_size, file_ranges>>
                ELSE /\ file_ranges' = Append(file_ranges,
                          [range |-> wrapped, offset |-> src % U64, builder |-> "partition"])
                     /\ total_size' = next % U64
                     /\ ri' = ri + 1
                     /\ bres' = "loop"

\* the end of the loop: Ok(MappedVFileBuilder::new(file_ranges)) (line 135)
BuilderReturn ==
  /\ bres = "loop"
  /\ ri > Len(non_resident.runs)
  /\ bres' = "ok"
  /\ UNCHANGED <<runVars, attrVars, treeVars, fixVars, moreVars, non_resident, builders, partition_size, ri, total_size, file_ranges>>

InitBuilder ==
  /\ IdleMore
  /\ IdleRun
  /\ IdleAttr
  /\ IdleTree
  /\ IdleFixup
  /\ non_resident \in [vnc_start : 0..MaxVnc, runs : RunLists]
  /\ builders \in BuilderSets
  /\ partition_size \in {MaxPartition \div 2, MaxPartition}
  /\ ri = 1
  /\ total_size = 0
  /\ file_ranges = <<>>
  /\ bres = "call"

NextBuilder == BuilderStart \/ BuilderStep \/ BuilderReturn

SpecBuilder == InitBuilder /\ [][NextBuilder]_vars

(***************************************************************************)
(* Properties of the non-resident builder                                  *)
(***************************************************************************)
RECURSIVE SumLengths(_)
SumLengths(rs) == IF rs = <<>> THEN 0 ELSE Head(rs).length + SumLengths(Tail(rs))

\* the size of a mapped VF: the end of its last range
MappedSize(fr) == IF fr = <<>> THEN 0 ELSE fr[Len(fr)].range.end

\* the ranges the runs stand for: run i starts where run i-1 ended, the first
\* at vnc_start * cluster_size
RangeOfRun(nr, cs, i) ==
  LET before == nr.vnc_start + SumLengths(SubSeq(nr.runs, 1, i - 1))
      run == nr.runs[i]
  IN  [range   |-> [start |-> before * cs, end |-> (before + run.length) * cs],
       offset  |-> IF run.offset = 0 THEN 0 ELSE run.offset * cs,
       builder |-> IF run.offset = 0 THEN "zero" ELSE "partition"]

CE_C9 ==
  bres = "ok" =>
    \A i \in 1..Len(non_resident.runs) :
      LET run == non_resident.runs[i]
          cs == Unwrap(builders.cluster_size)
      IN  run.offset # 0 =>
            /\ run.offset * cs < partition_size
            /\ (run.offset + run.length) * cs <= partition_size

\* C10: when builder() succeeds the size of the stream VF is the sum of the
\* run lengths times cluster_size, for every vnc_start.
CE_C10 ==
  bres = "ok" =>
    MappedSize(file_ranges)
      = SumLengths(non_resident.runs) * Unwrap(builders.cluster_size)

(***************************************************************************)
(* mftentry.rs: MftEntry::read_attributes and content_to_attribute.        *)
(* An entry is what MftEntries::entry and MftEntry::contents give for it:  *)
(* whether it can be read and the contents whose builder() succeeds, each  *)
(* with its type, its attribute id and, for an AttributeList, the items    *)
(* AttributeList::new decodes.                                             *)
(***************************************************************************)
AttrEntryIds == 1..MaxAttrEntries
AttrIds == 0..MaxAttrId
ListItems == [mft_entry_id : AttrEntryIds, id : AttrIds]
Contents ==
  [type_id : {"Data"}, id : AttrIds, items : {<<>>}]
    \cup [type_id : {"AttributeList"}, id : AttrIds, items : SeqsUpTo(ListItems, MaxItems)]
Entries == [ok : {TRUE}, contents : SeqsUpTo(Contents, MaxContents)]
             \cup {[ok |-> FALSE, contents |-> <<>>]}

\* a call of content_to_attribute: the content mft[e].contents[c], the item of
\* its list and the content of the item's entry the loops have reached
Frame(e, c) == [e |-> e, c |-> c, item |-> 1, k |-> 1, entries |-> FALSE]
Top == stack[Len(stack)]
TopContent == mft[Top.e].contents[Top.c]
Pop == SubSeq(stack, 1, Len(stack) - 1)
ReplaceTop(f) == [stack EXCEPT ![Len(stack)] = f]

\* what the recursive call is given (line 208)
RecursiveEntries(entries) == entries

\* read_attributes: the next content of the entry is handed to
\* content_to_attribute (line 224)
ReadNextContent ==
  /\ ares = "run"
  /\ stack = <<>>
  /\ ci <= Len(mft[self_entry].contents)
  /\ stack' = <<[Frame(self_entry, ci) EXCEPT !.entries = mft_entries]>>
  /\ ci' = ci + 1
  /\ UNCHANGED <<runVars, bldVars, treeVars, fixVars, moreVars, mft, mft_entries, self_entry, attributes, ares>>

\* read_attributes returns
ReadReturn ==
  /\ ares = "run"
  /\ stack = <<>>
  /\ ci > Len(mft[self_entry].contents)
  /\ ares' = "done"
  /\ UNCHANGED <<runVars, bldVars, treeVars, fixVars, moreVars, mft, mft_entries, self_entry, ci, stack, attributes>>

\* a Data content becomes an attribute (line 181)
ContentData ==
  /\ ares = "run"
  /\ stack # <<>>
  /\ TopContent.type_id = "Data"
  /\ attributes' = Append(attributes, [e |-> Top.e, id |-> TopContent.id])
  /\ stack' = Pop
  /\ UNCHANGED <<runVars, bldVars, treeVars, fixVars, moreVars, mft, mft_entries, self_entry, ci, ares>>

\* the loops over the items and over the contents of an item's entry
\* (lines 197-214), up to the next matching content or the end of the items
ListAdvance ==
  /\ ares = "run"
  /\ stack # <<>>
  /\ TopContent.type_id = "AttributeList"
  /\ LET f == Top
         items == TopContent.items
     IN  IF f.item > Len(items)
           THEN stack' = Pop
           ELSE LET item == items[f.item]
                    entry == mft[item.mft_entry_id]
                IN  IF ~f.entries \/ ~entry.ok \/ f.k > Len(entry.contents)
                      THEN stack' = ReplaceTop([f EXCEPT !.item = f.item + 1, !.k = 1])
                      ELSE /\ entry.contents[f.k].id # item.id
                           /\ stack' = ReplaceTop([f EXCEPT !.k = f.k + 1])
  /\ UNCHANGED <<runVars, bldVars, treeVars, fixVars, moreVars, mft, mft_entries, self_entry, ci, attributes, ares>>

\* a content of the item's entry has the item's id: content_to_attribute is
\* called on it (lines 206-209)
ListFollow ==
  /\ ares = "run"
  /\ stack # <<>>
  /\ TopContent.type_id = "AttributeList"
  /\ LET f == Top
         items == TopContent.items
     IN  /\ f.item <= Len(items)
         /\ f.entries
         /\ LET item == items[f.item]
                entry == mft[item.mft_entry_id]
            IN  /\ entry.ok
                /\ f.k <= Len(entry.contents)
                /\ entry.contents[f.k].id = item.id
                /\ IF Len(stack) < MaxDepth
                     THEN /\ stack' = Append(ReplaceTop([f EXCEPT !.k = f.k + 1]),
                                [Frame(item.mft_entry_id, f.k)
                                   EXCEPT !.entries = RecursiveEntries(f.entries)])
                          /\ ares' = ares
                     ELSE \* the call stack is exhausted
                          /\ ares' = "overflow"
                          /\ stack' = stack
  /\ UNCHANGED <<runVars, bldVars, treeVars, fixVars, moreVars, mft, mft_entries, self_entry, ci, attributes>>

InitAttr ==
  /\ IdleMore
  /\ IdleRun
  /\ IdleBuilder
  /\ IdleTree
  /\ IdleFixup
  /\ mft \in [AttrEntryIds -> Entries]
  /\ mft_entries \in BOOLEAN
  /\ self_entry \in {e \in AttrEntryIds : mft[e].ok}
  /\ ci = 1
  /\ stack = <<>>
  /\ attributes = <<>>
  /\ ares = "run"

NextAttr == ReadNextContent \/ ReadReturn \/ ContentData \/ ListAdvance \/ ListFollow

SpecAttr == InitAttr /\ [][NextAttr]_vars

\* C2: read_attributes follows AttributeList references to depth at most 1:
\* an AttributeList met in an entry loaded through an AttributeList item is
\* not followed, so the calls never nest deeper than the content of the entry
\* read and one content of a referenced entry, and the call stack never runs out.
CE_C2 ==
  /\ Len(stack) <= 2
  /\ ares # "overflow"

(***************************************************************************)
(* ntfs.rs: Ntfs::create_nodes, then the nodes "ntfs" and "orphan" of      *)
(* NtfsPlugin::run, then Ntfs::link_nodes.                                 *)
(* An entry is what entry(i) and NtfsNode::from_entry find: whether it can *)
(* be read, the number of its Data attributes and the parent id of the     *)
(* FileName find_filename selects, if any; or that its AttributeList leads *)
(* back to itself, in which case read_attributes, hence from_entry, nests  *)
(* calls until the stack is exhausted and the process is gone.             *)
(***************************************************************************)
RootId == 5

\* the entries of the MFT that may be in use, the others being unreadable
CandidateIds == {2, 4, RootId}
\* the parent ids a FileName may carry: entry 0, which create_nodes skips,
\* and the candidates
ParentIds == {0} \cup CandidateIds
DataCounts == {0, MaxStreams}
Unreadable == [ok |-> FALSE, ndata |-> 0, fn_parent |-> None, list_loops |-> FALSE]
Looping == [ok |-> TRUE, ndata |-> 0, fn_parent |-> None, list_loops |-> TRUE]
EntryInputs ==
  [ok : {TRUE}, ndata : DataCounts, fn_parent : {None} \cup {Some(q) : q \in ParentIds},
   list_loops : {FALSE}]
    \cup {Unreadable, Looping}

\* from_entry: the FileName the nodes of an entry carry (lines 192-200)
NodeFileName(id, e) == IF id = RootId THEN None ELSE e.fn_parent

\* from_entry: one node without Data, else one per Data attribute (lines 208-228)
NodeCount(e) == IF e.ndata = 0 THEN 1 ELSE e.ndata

\* a stored parent that keeps a parent id equal to the entry's own id
StoredParentUnguarded(i, parent_id) == parent_id

\* create_nodes: the parent stored with a node (lines 80-95)
StoredParent(i, parent_id) ==
  IF parent_id # None /\ Unwrap(parent_id) # i THEN parent_id ELSE None

\* create_nodes: the row of nodes_ids an entry gets (lines 74-97)
Row(i, e, first) ==
  [n \in 1..NodeCount(e) |->
     [parent |-> StoredParent(i, NodeFileName(i, e)), node |-> first + n - 1]]

\* one iteration of the loop of create_nodes (lines 62-98)
CreateNodesStep ==
  /\ tphase = "create"
  /\ ei < EntryCount
  /\ \E e \in (IF ei \in CandidateIds THEN EntryInputs ELSE {Unreadable}) :
       /\ entries_read' = (ei :> e) @@ entries_read
       /\ IF e.ok /\ e.list_loops
            THEN \* from_entry does not return (mftentry.rs line 208)
                 /\ tphase' = "overflow"
                 /\ UNCHANGED <<nodes_ids, next_node, ei>>
            ELSE /\ IF e.ok
                      THEN /\ nodes_ids' = (ei :> Row(ei, e, next_node)) @@ nodes_ids
                           /\ next_node' = next_node + NodeCount(e)
                      ELSE UNCHANGED <<nodes_ids, next_node>>
                 /\ ei' = ei + 1
                 /\ tphase' = tphase
  /\ UNCHANGED <<runVars, bldVars, attrVars, fixVars, moreVars, ntfs_node_id, orphan_node_id,
                 linked, edges>>

\* create_nodes returns; run adds the nodes "ntfs" and "orphan" (lib.rs 74-77)
AddRootNodes ==
  /\ tphase = "create"
  /\ ei >= EntryCount
  /\ ntfs_node_id' = next_node
  /\ orphan_node_id' = next_node + 1
  /\ next_node' = next_node + 2
  /\ tphase' = "link"
  /\ UNCHANGED <<runVars, bldVars, attrVars, fixVars, moreVars, ei, entries_read, nodes_ids,
                 linked, edges>>

\* a root test that never holds
IsRootNever(id) == FALSE

\* link_nodes: the entry is the root directory (line 115)
IsRoot(id) == id = RootId

\* the last node of the parent's row
ParentNodeLast(parent_nodes) == parent_nodes[Len(parent_nodes)].node

\* link_nodes: the node of the parent a child is attached to, parent_nodes[0].1
ParentNode(parent_nodes) == parent_nodes[1].node

\* link_nodes: the add_child_from_id call made for node n of entry id
\* (lines 110-139)
LinkEdge(id, n) ==
  LET nodes == nodes_ids[id]
      tree_node_id == nodes[n].node
      parent_id == nodes[n].parent
  IN  IF IsRoot(id) THEN <<ntfs_node_id, nodes[1].node>>
      ELSE IF parent_id = None THEN <<orphan_node_id, tree_node_id>>
      ELSE IF /\ Unwrap(parent_id) \in DOMAIN nodes_ids
              /\ nodes_ids[Unwrap(parent_id)] # <<>>
              /\ ParentNode(nodes_ids[Unwrap(parent_id)]) # tree_node_id
             THEN <<ParentNode(nodes_ids[Unwrap(parent_id)]), tree_node_id>>
             ELSE <<orphan_node_id, tree_node_id>>

\* the calls made for the first n nodes of entry id, added to the bag b
RECURSIVE LinkEdges(_, _, _)
LinkEdges(id, n, b) ==
  IF n = 0 THEN b
  ELSE LinkEdges(id, n - 1, b) (+) SetToBag({LinkEdge(id, n)})

\* an iteration that attaches a node to its parent only when the parent entry
\* has been iterated over before, and to the orphan node otherwise
LinkEntryAfterParent ==
  /\ tphase = "link"
  /\ \E id \in DOMAIN nodes_ids \ linked :
       /\ edges' = edges (+) SetToBag(
            {IF \/ IsRoot(id)
                \/ nodes_ids[id][n].parent = None
                \/ Unwrap(nodes_ids[id][n].parent) \in linked
               THEN LinkEdge(id, n)
               ELSE <<orphan_node_id, nodes_ids[id][n].node>> :
             n \in 1..Len(nodes_ids[id])})
       /\ linked' = linked \cup {id}
  /\ UNCHANGED <<runVars, bldVars, attrVars, fixVars, moreVars, ei, entries_read, nodes_ids,
                 next_node, ntfs_node_id, orphan_node_id, tphase>>

\* one iteration of the outer loop of link_nodes, over any key of the map not
\* yet iterated over: a HashMap has no iteration order (lines 107-141)
LinkEntry ==
  /\ tphase = "link"
  /\ \E id \in DOMAIN nodes_ids \ linked :
       /\ edges' = LinkEdges(id, Len(nodes_ids[id]), edges)
       /\ linked' = linked \cup {id}
  /\ UNCHANGED <<runVars, bldVars, attrVars, fixVars, moreVars, ei, entries_read, nodes_ids,
                 next_node, ntfs_node_id, orphan_node_id, tphase>>

\* link_nodes returns
LinkReturn ==
  /\ tphase = "link"
  /\ linked = DOMAIN nodes_ids
  /\ tphase' = "done"
  /\ UNCHANGED <<runVars, bldVars, attrVars, fixVars, moreVars, ei, entries_read, nodes_ids,
                 next_node, ntfs_node_id, orphan_node_id, linked, edges>>

InitTree ==
  /\ IdleMore
  /\ IdleRun
  /\ IdleBuilder
  /\ IdleAttr
  /\ IdleFixup
  /\ ei = 1
  /\ entries_read = <<>>
  /\ nodes_ids = <<>>
  /\ next_node = 1
  /\ ntfs_node_id = 0
  /\ orphan_node_id = 0
  /\ linked = {}
  /\ edges = EmptyBag
  /\ tphase = "create"

NextTree == CreateNodesStep \/ AddRootNodes \/ LinkEntry \/ LinkReturn

SpecTree == InitTree /\ [][NextTree]_vars

(***************************************************************************)
(* Properties of the tree building                                         *)
(***************************************************************************)
\* the entries that produced at least one node
Produced(id) == id \in 1..(EntryCount - 1) /\ entries_read[id].ok

\* the nodes created for an entry, and the first of them
NodesOf(id) == {nodes_ids[id][n].node : n \in 1..Len(nodes_ids[id])}
FirstNode(id) == CHOOSE m \in NodesOf(id) : \A x \in NodesOf(id) : m <= x

\* the parents a node has been attached to
ParentsOf(node) == {e[1] : e \in {x \in BagToSet(edges) : x[2] = node}}

\* the parent id of the FileName of an entry
FileNameParent(id) == entries_read[id].fn_parent

\* C3: after create_nodes and link_nodes every node of an entry other than 5
\* whose FileName names another entry that produced a node is a child of the
\* first node of that entry and of no other node.
Thm_C3 ==
  tphase = "done" =>
    \A id \in (1..(EntryCount - 1)) \ {RootId} :
      (/\ Produced(id)
       /\ FileNameParent(id) # None
       /\ Unwrap(FileNameParent(id)) # id
       /\ Produced(Unwrap(FileNameParent(id))))
        => \A node \in NodesOf(id) :
             ParentsOf(node) = {FirstNode(Unwrap(FileNameParent(id)))}

\* both streams of an entry attached under an entry of two streams
Wit_C3 ==
  /\ tphase = "done"
  /\ \E id \in CandidateIds \ {RootId} :
       /\ Produced(id)
       /\ Len(nodes_ids[id]) = 2
       /\ FileNameParent(id) # None
       /\ Unwrap(FileNameParent(id)) \notin {id, RootId}
       /\ Produced(Unwrap(FileNameParent(id)))
       /\ Len(nodes_ids[Unwrap(FileNameParent(id))]) = 2

\* C4: after create_nodes and link_nodes every node of an entry other than 5
\* without FileName, or whose FileName names the entry itself or an entry
\* without node, is a child of the orphan node and of no other node.
Thm_C4 ==
  tphase = "done" =>
    \A id \in (1..(EntryCount - 1)) \ {RootId} :
      (/\ Produced(id)
       /\ \/ FileNameParent(id) = None
          \/ Unwrap(FileNameParent(id)) = id
          \/ ~Produced(Unwrap(FileNameParent(id))))
        => \A node \in NodesOf(id) : ParentsOf(node) = {orphan_node_id}

\* a self-parented entry of two streams and an entry whose FileName names
\* entry 0 or an unreadable entry
Wit_C4 ==
  /\ tphase = "done"
  /\ \E id \in CandidateIds \ {RootId} :
       /\ Produced(id)
       /\ FileNameParent(id) = Some(id)
       /\ Len(nodes_ids[id]) = 2
  /\ \E id \in CandidateIds \ {RootId} :
       /\ Produced(id)
       /\ FileNameParent(id) # None
       /\ Unwrap(FileNameParent(id)) # id
       /\ ~Produced(Unwrap(FileNameParent(id)))

\* C5: after create_nodes and link_nodes the first node of entry 5, if it has
\* one, is a child of the node "ntfs", whatever the parent id of its FileName.
Thm_C5 ==
  (tphase = "done" /\ Produced(RootId)) =>
    ntfs_node_id \in ParentsOf(FirstNode(RootId))

\* entry 5 with two streams and a FileName naming another entry that has nodes
Wit_C5 ==
  /\ tphase = "done"
  /\ Produced(RootId)
  /\ Len(nodes_ids[RootId]) = 2
  /\ FileNameParent(RootId) # None
  /\ Unwrap(FileNameParent(RootId)) # RootId
  /\ Produced(Unwrap(FileNameParent(RootId)))

\* the attachment point the table gives a node: the orphan node without
\* stored parent or without row for the parent, else the lowest node of the
\* parent's row
AttachPoint(id, n) ==
  LET stored == nodes_ids[id][n].parent
  IN  IF stored = None THEN orphan_node_id
      ELSE IF Unwrap(stored) \in DOMAIN nodes_ids THEN FirstNode(Unwrap(stored))
      ELSE orphan_node_id

\* the edges the table gives the nodes of a set of entries: the first node of
\* entry 5 under "ntfs", every node of another entry under its attachment point
TableEdges(ids) ==
  UNION {IF id = RootId
           THEN {<<ntfs_node_id, FirstNode(id)>>}
           ELSE {<<AttachPoint(id, n), nodes_ids[id][n].node>> :
                   n \in 1..Len(nodes_ids[id])} : id \in ids}

\* C6: the edges link_nodes produces do not depend on the order in which the
\* map is iterated over: whatever keys have been taken so far and in whatever
\* order, the edges are those the table gives these keys, the children of an
\* entry being under its lowest node.
Thm_C6 ==
  tphase \in {"link", "done"} => BagToSet(edges) = TableEdges(linked)

\* three entries linked, among them a child of an entry of two streams whose
\* key was taken after the child's
Wit_C6 ==
  /\ tphase = "link"
  /\ Cardinality(linked) = 1
  /\ Cardinality(DOMAIN nodes_ids) = 3
  /\ \E id \in linked :
       /\ id # RootId
       /\ nodes_ids[id][1].parent # None
       /\ Unwrap(nodes_ids[id][1].parent) \in DOMAIN nodes_ids \ linked
       /\ Len(nodes_ids[Unwrap(nodes_ids[id][1].parent)]) = 2

\* C20: create_nodes processes every entry index from 1 to count - 1 in
\* increasing order, each once; an entry that cannot be read contributes no
\* node and no row and never prevents a later entry from being processed, so
\* the table after create_nodes holds the nodes of every readable entry.
CE_C20 ==
  /\ tphase = "create" => DOMAIN entries_read = 1..(ei - 1)
  /\ tphase \in {"link", "done"} =>
       /\ DOMAIN entries_read = 1..(EntryCount - 1)
       /\ DOMAIN nodes_ids = {i \in 1..(EntryCount - 1) : entries_read[i].ok}
       /\ \A i \in DOMAIN nodes_ids : Len(nodes_ids[i]) = NodeCount(entries_read[i])
  /\ tphase \notin {"create", "link", "done"} =>
       \* create_nodes was cut short: every index has been processed all the same
       DOMAIN entries_read = 1..(EntryCount - 1)

(***************************************************************************)
(* mftentry.rs: MftEntry::to_builder, the fixed-up view of a record.       *)
(* Sector sizes start at 2: the boot sector gives a multiple of 512.       *)
(***************************************************************************)
SectorSizes == 2..MaxSector

\* the source of the two bytes of a sector taken at the update sequence number
FixupStartAtUsn(entry, fixup, off, ss) == entry + fixup + (2 * (off \div ss))

\* the source of the last two bytes of a sector (line 278), off being the
\* cursor at these two bytes
FixupStart(entry, fixup, off, ss) == entry + fixup + 2 + (2 * (off \div ss))

\* one iteration of the loop (lines 267-290)
ToBuilderStep ==
  /\ fres = "loop"
  /\ offset < record_size
  /\ IF record_size - offset >= sector_size
       THEN LET body == [range  |-> [start |-> offset, end |-> offset + (sector_size - 2)],
                         offset |-> entry_offset + offset]
                off2 == offset + (sector_size - 2)
                tail == [range  |-> [start |-> off2, end |-> off2 + 2],
                         offset |-> FixupStart(entry_offset, fixup_array_offset,
                                               off2, sector_size)]
            IN  /\ entry_ranges' = Append(Append(entry_ranges, body), tail)
                /\ offset' = off2 + 2
       ELSE /\ entry_ranges' = Append(entry_ranges,
                 [range  |-> [start |-> offset, end |-> record_size - offset],
                  offset |-> entry_offset + offset])
            /\ offset' = offset + (record_size - offset)
  /\ UNCHANGED <<runVars, bldVars, attrVars, treeVars, moreVars, record_size, sector_size,
                 entry_offset, fixup_array_offset, fres>>

\* the end of the loop: the mapped builder of the ranges (line 292)
ToBuilderReturn ==
  /\ fres = "loop"
  /\ offset >= record_size
  /\ fres' = "done"
  /\ UNCHANGED <<runVars, bldVars, attrVars, treeVars, moreVars, record_size, sector_size,
                 entry_offset, fixup_array_offset, offset, entry_ranges>>

InitFixup ==
  /\ IdleMore
  /\ IdleRun
  /\ IdleBuilder
  /\ IdleAttr
  /\ IdleTree
  /\ record_size \in 1..MaxRecord
  /\ sector_size \in SectorSizes
  /\ entry_offset \in {0, record_size}
  /\ fixup_array_offset \in 0..MaxFixupOffset
  /\ offset = 0
  /\ entry_ranges = <<>>
  /\ fres = "loop"

NextFixup == ToBuilderStep \/ ToBuilderReturn

SpecFixup == InitFixup /\ [][NextFixup]_vars

(***************************************************************************)
(* Properties of the fixed-up view                                         *)
(***************************************************************************)
\* the positions of the source a read at position p of a mapped VF is
\* routed to: src_offset + (p - start) for the ranges that hold p
SourcesOf(fr, p) ==
  {fr[i].offset + (p - fr[i].range.start) :
     i \in {j \in 1..Len(fr) : fr[j].range.start <= p /\ p < fr[j].range.end}}

\* C7: for a record of whole sectors the VF of to_builder reads the two last
\* bytes of sector k (k from 1) from the raw MFT at
\* entry_offset + fixup_offset + 2k, and every other byte p from
\* entry_offset + p.
Thm_C7 ==
  (fres = "done" /\ record_size % sector_size = 0) =>
    /\ \A k \in 1..(record_size \div sector_size) :
         /\ SourcesOf(entry_ranges, sector_size * k - 2)
              = {entry_offset + fixup_array_offset + 2 * k}
         /\ SourcesOf(entry_ranges, sector_size * k - 1)
              = {entry_offset + fixup_array_offset + 2 * k + 1}
    /\ \A q \in 0..(record_size - 1) :
         q % sector_size < sector_size - 2 =>
           SourcesOf(entry_ranges, q) = {entry_offset + q}

\* a record of two sectors of more than two bytes, not the first of the MFT
Wit_C7 ==
  /\ fres = "done"
  /\ sector_size > 2
  /\ record_size = 2 * sector_size
  /\ entry_offset > 0
  /\ fixup_array_offset > 0

\* C30: for every record_size > 0 and sector_size >= 2, a record_size that is
\* not a multiple of sector_size included, the ranges to_builder pushes are
\* well-formed (start <= end), contiguous, and cover exactly [0, record_size).
CE_C30 ==
  fres = "done" =>
    /\ \A i \in 1..Len(entry_ranges) :
         entry_ranges[i].range.start <= entry_ranges[i].range.end
    /\ \A i \in 1..(Len(entry_ranges) - 1) :
         entry_ranges[i + 1].range.start = entry_ranges[i].range.end
    /\ entry_ranges # <<>>
    /\ entry_ranges[1].range.start = 0
    /\ entry_ranges[Len(entry_ranges)].range.end = record_size

(***************************************************************************)
(* attributecontent.rs: MftAttributeContent::resident_builder.             *)
(* offset, content_offset and content_size are u32 values added as u64:    *)
(* the sums cannot overflow.                                               *)
(***************************************************************************)
Residents == [content_offset : 0..MaxContentOffset, content_size : 0..MaxContentSize]

\* the place of the content in the entry (line 78)
ResidentOffset(off, res) == off + res.content_offset

\* the first check (line 82)
ResidentOffsetTooLarge(off, size) == off > size

\* a second check that refuses a content ending at the end of the entry
ResidentContentTooLargeAtEnd(off, content_size, size) == off + content_size >= size

\* the second check (line 86)
ResidentContentTooLarge(off, content_size, size) == off + content_size > size

\* resident_builder (lines 74-93)
ResidentBuilder ==
  /\ rres = "call"
  /\ LET off == ResidentOffset(attr_offset, resident)
         content_size == resident.content_size
         range == [start |-> 0, end |-> content_size]
     IN  IF ResidentOffsetTooLarge(off, mft_entry_size)
           THEN /\ rres' = "ResidentAttributeOffsetTooLarge"
                /\ UNCHANGED resident_ranges
           ELSE IF ResidentContentTooLarge(off, content_size, mft_entry_size)
             THEN /\ rres' = "ResidentAttributeContentTooLarge"
                  /\ UNCHANGED resident_ranges
             ELSE /\ resident_ranges' = Append(resident_ranges,
                       [range |-> range, offset |-> off, builder |-> "mft_entry"])
                  /\ rres' = "ok"
  /\ UNCHANGED <<runVars, bldVars, attrVars, treeVars, fixVars, lastVars, nodeVars, freeVars, bootVars,
                 attr_offset, resident, mft_entry_size>>

InitResident ==
  /\ IdleRun
  /\ IdleBuilder
  /\ IdleAttr
  /\ IdleTree
  /\ IdleFixup
  /\ IdleLast
  /\ IdleNode
  /\ IdleFree
  /\ IdleBoot
  /\ attr_offset \in 0..MaxAttrOffset
  /\ resident \in Residents
  /\ mft_entry_size \in 0..MaxEntrySize
  /\ resident_ranges = <<>>
  /\ rres = "call"

NextResident == ResidentBuilder

SpecResident == InitResident /\ [][NextResident]_vars

(***************************************************************************)
(* Properties of the resident builder                                      *)
(***************************************************************************)
\* the bytes [from, from + n) lie in an entry of the given size
FitsInEntry(from, n, size) == from + n <= size

\* C11: for a resident attribute builder() returns the single range
\* [0, content_size) taken from the entry's fixed-up view at attribute offset
\* + content_offset; it fails exactly when that range does not fit in the
\* entry: with ResidentAttributeOffsetTooLarge when the offset is beyond the
\* entry size, otherwise with ResidentAttributeContentTooLarge; a stream that
\* was built never reads outside its entry.
Thm_C11 ==
  rres # "call" =>
    LET from == attr_offset + resident.content_offset
        n == resident.content_size
    IN  /\ (rres = "ok") <=> FitsInEntry(from, n, mft_entry_size)
        /\ rres = "ok" =>
             /\ resident_ranges =
                  <<[range |-> [start |-> 0, end |-> n], offset |-> from, builder |-> "mft_entry"]>>
             /\ \A p \in 0..(n - 1) : from + p < mft_entry_size
        /\ rres # "ok" =>
             /\ resident_ranges = <<>>
             /\ rres = IF from > mft_entry_size THEN "ResidentAttributeOffsetTooLarge"
                                                ELSE "ResidentAttributeContentTooLarge"

\* a content that ends exactly at the end of its entry has been built
Wit_C11 ==
  /\ rres = "ok"
  /\ resident.content_size > 0
  /\ resident.content_offset > 0
  /\ attr_offset > 0
  /\ attr_offset + resident.content_offset + resident.content_size = mft_entry_size

(***************************************************************************)
(* mftentry.rs: read_attributes on a base entry whose AttributeList names  *)
(* the pieces of a Data attribute kept in other entries.  The base entry   *)
(* is entry 1, the pieces are in the entries after it; a piece is a Data   *)
(* content with the size of the VF its builder() gives.                    *)
(***************************************************************************)
PieceEntryIds == 2..(MaxAttrEntries + 1)
PieceItems == [mft_entry_id : PieceEntryIds, id : AttrIds]
PieceEntries ==
  {[ok |-> TRUE,
    contents |-> <<[type_id |-> "Data", id |-> i, items |-> <<>>, size |-> s]>>] :
      i \in AttrIds, s \in 1..MaxPiece}
    \cup {[ok |-> FALSE, contents |-> <<>>]}
BaseEntry(items) ==
  [ok |-> TRUE, contents |-> <<[type_id |-> "AttributeList", id |-> 0, items |-> items]>>]

InitSplit ==
  /\ IdleMore
  /\ IdleRun
  /\ IdleBuilder
  /\ IdleTree
  /\ IdleFixup
  /\ \E items \in SeqsUpTo(PieceItems, MaxAttrEntries) :
     \E pieces \in [PieceEntryIds -> PieceEntries] :
       mft = [e \in {1} \cup PieceEntryIds |-> IF e = 1 THEN BaseEntry(items) ELSE pieces[e]]
  /\ mft_entries \in BOOLEAN
  /\ self_entry = 1
  /\ ci = 1
  /\ stack = <<>>
  /\ attributes = <<>>
  /\ ares = "run"

SpecSplit == InitSplit /\ [][NextAttr]_vars

\* the content a collected Data attribute holds, and the size of its VF
ContentOf(a) == CHOOSE c \in {mft[a.e].contents[k] : k \in 1..Len(mft[a.e].contents)} : c.id = a.id
StreamSize(a) == ContentOf(a).size

\* the base entry lists, in order, the Data pieces of entries 2 and 3, both
\* readable, and the entries table is given
SplitData ==
  /\ mft_entries
  /\ self_entry = 1
  /\ DOMAIN mft = {1} \cup PieceEntryIds
  /\ mft[2].ok
  /\ mft[3].ok
  /\ mft[1].contents[1].items =
       <<[mft_entry_id |-> 2, id |-> mft[2].contents[1].id],
         [mft_entry_id |-> 3, id |-> mft[3].contents[1].id]>>

\* C12: when the AttributeList of a base entry references the two pieces of
\* one Data attribute stored in two other entries, read_attributes with the
\* entries table yields a single Data stream (hence from_entry a single
\* node) whose size is the sum of the sizes of the two pieces.
CE_C12 ==
  (ares = "done" /\ SplitData) =>
    /\ Len(attributes) = 1
    /\ StreamSize(attributes[1]) = mft[2].contents[1].size + mft[3].contents[1].size

(***************************************************************************)
(* ntfsattributes.rs: find_standard_info, find_datas, find_filename;       *)
(* ntfs.rs: NtfsNode::from_entry.                                          *)
(* The attributes are those read_attributes decoded: StandardInformation   *)
(* (v tells two snapshots apart), FileName with its name space, name and   *)
(* parent, Data with its attribute id and optional attribute name.         *)
(***************************************************************************)
NameSpaces == {"Posix", "Win32", "Dos", "DosWin32"}
StandardInformations == [type : {"StandardInformation"}, v : {1, 2}]
FileNames == [type : {"FileName"}, name_space : NameSpaces, file_name : {"f", "g"},
              parent_mft_entry_id : {RootId}]
Datas == [type : {"Data"}, id : AttrIds, name : {None, Some("s")}]
NtfsAttribute == StandardInformations \cup FileNames \cup Datas

\* the entry ids from_entry is called with: 0 for the master MFT, the root
\* and the entry before it
NodeEntryIds == {0, RootId - 1, RootId}

\* find_standard_info (lines 54-68) and find_datas (lines 70-85)
find_standard_info(attrs) == SelectSeq(attrs, LAMBDA a : a.type = "StandardInformation")
find_datas(attrs) == SelectSeq(attrs, LAMBDA a : a.type = "Data")

\* a test that forgets DosWin32
PreferredWin32Only(name_space) == name_space = "Win32"

\* the name spaces that replace an earlier pick (line 100)
Preferred(name_space) == name_space = "Win32" \/ name_space = "DosWin32"

\* the loop of find_filename from attribute k on (lines 92-114)
RECURSIVE FindFilenameFrom(_, _, _, _)
FindFilenameFrom(attrs, k, file_name, name_space) ==
  IF k > Len(attrs) THEN file_name
  ELSE LET a == attrs[k]
       IN  IF a.type # "FileName"
             THEN FindFilenameFrom(attrs, k + 1, file_name, name_space)
             ELSE IF name_space # None
               THEN IF Preferred(a.name_space)
                      THEN FindFilenameFrom(attrs, k + 1, Some(a), Some(a.name_space))
                      ELSE FindFilenameFrom(attrs, k + 1, file_name, name_space)
               ELSE FindFilenameFrom(attrs, k + 1, Some(a), Some(a.name_space))

\* find_filename (lines 87-116)
find_filename(attrs) == FindFilenameFrom(attrs, 1, None, None)

\* mftentry.rs: is_used (lines 251-254)
is_used(flags) == flags % 2 # 0

\* a display name without the special case of the root
BaseNameOfFileName(id, found) ==
  IF found # None THEN Unwrap(found).file_name ELSE "Unknown_" \o ToString(id)

\* the display name (lines 192-200)
BaseName(id, found) ==
  IF id = RootId THEN "root"
  ELSE IF found # None THEN Unwrap(found).file_name
  ELSE "Unknown_" \o ToString(id)

\* a stream name that leaves the attribute name out
StreamNameBase(base, data_name) == base

\* the name of the node of a Data attribute (lines 219-223)
StreamName(base, data_name) ==
  IF data_name # None THEN base \o ":" \o Unwrap(data_name) ELSE base

\* from_entry (lines 184-229)
FromEntry ==
  /\ nres = "call"
  /\ LET is_deleted == ~is_used(entry_flags)
         datas == find_datas(decoded)
         infos == find_standard_info(decoded)
         standard_information == IF infos = <<>> THEN None ELSE Some(Head(infos))
         found == IF entry_id = RootId THEN None ELSE find_filename(decoded)
         file_name == IF entry_id = RootId THEN None ELSE found
         base == BaseName(entry_id, found)
         attrs == [standard_information |-> standard_information,
                   file_name |-> file_name,
                   is_deleted |-> is_deleted]
     IN  /\ selected' = IF entry_id = RootId THEN None ELSE Some(found)
         /\ name' = base
         /\ ntfs_nodes' =
              IF datas = <<>>
                THEN <<[name |-> base, attributes |-> attrs, data |-> None]>>
                ELSE [j \in 1..Len(datas) |->
                        [name |-> StreamName(base, datas[j].name),
                         attributes |-> attrs,
                         data |-> Some(datas[j].id)]]
  /\ nres' = "done"
  /\ UNCHANGED <<runVars, bldVars, attrVars, treeVars, fixVars, lastVars, resVars, freeVars, bootVars,
                 entry_id, entry_flags, decoded>>

InitNode ==
  /\ IdleRun
  /\ IdleBuilder
  /\ IdleAttr
  /\ IdleTree
  /\ IdleFixup
  /\ IdleLast
  /\ IdleResident
  /\ IdleFree
  /\ IdleBoot
  /\ entry_id \in NodeEntryIds
  /\ entry_flags \in 0..MaxFlags
  /\ decoded \in SeqsUpTo(NtfsAttribute, MaxDecoded)
  /\ selected = None
  /\ name = ""
  /\ ntfs_nodes = <<>>
  /\ nres = "call"

NextNode == FromEntry

SpecNode == InitNode /\ [][NextNode]_vars

(***************************************************************************)
(* Properties of find_filename and from_entry                              *)
(***************************************************************************)
\* the positions of the attributes of a type, and of the preferred FileNames
PositionsOf(attrs, type) == {k \in 1..Len(attrs) : attrs[k].type = type}
PreferredPositions(attrs) ==
  {k \in PositionsOf(attrs, "FileName") : attrs[k].name_space \in {"Win32", "DosWin32"}}
Lowest(S) == CHOOSE k \in S : \A l \in S : k <= l

\* C13: find_filename returns a FileName of name space Win32 or DosWin32 if
\* the sequence holds one, otherwise the first FileName of the sequence, and
\* nothing exactly when the sequence holds no FileName.
Thm_C13 ==
  (nres = "done" /\ selected # None) =>
    LET r == Unwrap(selected)
        fns == PositionsOf(decoded, "FileName")
        pref == PreferredPositions(decoded)
    IN  /\ (r = None) <=> (fns = {})
        /\ pref # {} => /\ r # None
                        /\ Unwrap(r) \in {decoded[k] : k \in pref}
        /\ (pref = {} /\ fns # {}) => r = Some(decoded[Lowest(fns)])

\* find_filename was given a Posix name, then a DosWin32 name, then a Dos name
Wit_C13 ==
  /\ nres = "done"
  /\ selected # None
  /\ Len(decoded) = 3
  /\ decoded[1].type = "FileName" /\ decoded[1].name_space = "Posix"
  /\ decoded[2].type = "FileName" /\ decoded[2].name_space = "DosWin32"
  /\ decoded[3].type = "FileName" /\ decoded[3].name_space = "Dos"
  /\ decoded[1].file_name # decoded[2].file_name
  /\ Unwrap(selected) = Some(decoded[2])

\* C14: from_entry returns exactly one node without data when the entry has
\* no Data attribute, otherwise one node per Data attribute in attribute
\* order, named base_name for a Data attribute without attribute name and
\* base_name:data_name for a named one; all the nodes carry the same
\* StandardInformation and FileName snapshots and the same is_deleted flag,
\* true exactly when bit 0 of the entry flags is clear.
Thm_C14 ==
  nres = "done" =>
    LET ds == PositionsOf(decoded, "Data")
        \* the position in decoded of the j-th Data attribute
        nth(j) == CHOOSE k \in ds : Cardinality({l \in ds : l < k}) = j - 1
        sis == PositionsOf(decoded, "StandardInformation")
    IN  /\ ds = {} => /\ Len(ntfs_nodes) = 1
                      /\ ntfs_nodes[1].data = None
                      /\ ntfs_nodes[1].name = name
        /\ ds # {} =>
             /\ Len(ntfs_nodes) = Cardinality(ds)
             /\ \A j \in 1..Len(ntfs_nodes) :
                  /\ ntfs_nodes[j].data = Some(decoded[nth(j)].id)
                  /\ ntfs_nodes[j].name =
                       IF decoded[nth(j)].name = None THEN name
                       ELSE name \o ":" \o Unwrap(decoded[nth(j)].name)
        /\ \A j \in 1..Len(ntfs_nodes) :
             /\ ntfs_nodes[j].attributes = ntfs_nodes[1].attributes
             /\ ntfs_nodes[j].attributes.is_deleted = (entry_flags % 2 = 0)
             /\ ntfs_nodes[j].attributes.standard_information =
                  IF sis = {} THEN None ELSE Some(decoded[Lowest(sis)])
             /\ ntfs_nodes[j].attributes.file_name =
                  IF selected = None THEN None ELSE Unwrap(selected)

\* an entry in use with a named Data attribute, then an unnamed one, a
\* StandardInformation and a FileName: two nodes, "f:s" and "f"
Wit_C14 ==
  /\ nres = "done"
  /\ entry_id # RootId
  /\ entry_flags % 2 = 1
  /\ Len(ntfs_nodes) = 2
  /\ ntfs_nodes[1].name = "f:s"
  /\ ntfs_nodes[2].name = "f"
  /\ ntfs_nodes[1].data # ntfs_nodes[2].data
  /\ ntfs_nodes[1].attributes.file_name # None
  /\ ~ntfs_nodes[2].attributes.is_deleted

\* C15: the base display name is "root" for entry 5 whatever its FileName
\* attributes, otherwise the file name the name space preference selects when
\* the entry has a FileName, otherwise "Unknown_<entry id>".
Thm_C15 ==
  nres = "done" =>
    LET fns == PositionsOf(decoded, "FileName")
        pref == PreferredPositions(decoded)
    IN  /\ entry_id = RootId => name = "root"
        /\ (entry_id # RootId /\ fns = {}) => name = "Unknown_" \o ToString(entry_id)
        /\ (entry_id # RootId /\ pref # {}) => name \in {decoded[k].file_name : k \in pref}
        /\ (entry_id # RootId /\ fns # {} /\ pref = {}) => name = decoded[Lowest(fns)].file_name
        /\ \A j \in 1..Len(ntfs_nodes) :
             ntfs_nodes[j].name \in {name, name \o ":s"}

\* entry 5 holding a Win32 FileName is named "root"
Wit_C15 ==
  /\ nres = "done"
  /\ entry_id = RootId
  /\ \E k \in 1..Len(decoded) :
       decoded[k].type = "FileName" /\ decoded[k].name_space = "Win32"
  /\ name = "root"
  /\ ntfs_nodes[1].name = "root"

(***************************************************************************)
(* lib.rs: the call of Ntfs::freespace in NtfsPlugin::run;                 *)
(* unallocated.rs: freespace_builder; bitmap.rs: Bitmap::new.              *)
(* A cluster range is pushed as cluster_start..cluster_end with            *)
(* cluster_end the last cluster of the range.                              *)
(***************************************************************************)
\* the bytes the bitmaps are made of: 0x00, 0x0F, 0xF0, 0xFE, 0xFF
BitmapBytes == {0, 15, 240, 254, 255}

\* bit i of a byte (line 34)
Bit(byte, i) == (byte \div Pow(2, i)) % 2

\* the boot sectors: bytes per sector and sectors per cluster
Bpbs == [bytes_per_sector : {MaxSector \div 2, MaxSector},
         sector_per_cluster : 1..MaxSectorsPerCluster]

\* bootsector.rs: cluster_size (line 97)
ClusterSize(b) == b.sector_per_cluster * b.bytes_per_sector

\* lib.rs: the cluster_size handed to Ntfs::freespace (line 81)
FreespaceClusterSize(b) == b.bytes_per_sector

\* run calls freespace, freespace calls freespace_builder (lib.rs line 81,
\* ntfs.rs lines 144-151), which starts Bitmap::new (bitmap.rs lines 18-27)
FreespaceStart ==
  /\ frres = "call"
  /\ free_cluster_size' = FreespaceClusterSize(bpb)
  /\ frres' = "bitmap"
  /\ UNCHANGED <<runVars, bldVars, attrVars, treeVars, fixVars, lastVars, resVars, nodeVars, bootVars,
                 bitmap, bpb, current_cluster, cluster_start, cluster_end, unallocated,
                 free_i, current_offset, free_ranges>>

\* Bitmap::new: one bit of the two loops (bitmap.rs lines 29-53)
BitmapStep ==
  /\ frres = "bitmap"
  /\ current_cluster < 8 * Len(bitmap)
  /\ LET byte == bitmap[current_cluster \div 8 + 1]
         i == current_cluster % 8
     IN  IF Bit(byte, i) # 0
           THEN IF cluster_start # 0
                  THEN /\ unallocated' = Append(unallocated,
                            [start |-> cluster_start, end |-> cluster_end])
                       /\ cluster_start' = 0
                       /\ cluster_end' = 0
                  ELSE UNCHANGED <<unallocated, cluster_start, cluster_end>>
           ELSE /\ cluster_start' = IF cluster_start = 0 THEN current_cluster
                                                         ELSE cluster_start
                /\ cluster_end' = current_cluster
                /\ UNCHANGED unallocated
  /\ current_cluster' = current_cluster + 1
  /\ UNCHANGED <<runVars, bldVars, attrVars, treeVars, fixVars, lastVars, resVars, nodeVars, bootVars,
                 bitmap, bpb, free_cluster_size, free_i, current_offset, free_ranges, frres>>

\* Bitmap::new returns (bitmap.rs line 55), freespace_builder starts its loop
\* (unallocated.rs lines 13-14)
BitmapReturn ==
  /\ frres = "bitmap"
  /\ current_cluster = 8 * Len(bitmap)
  /\ frres' = "ranges"
  /\ UNCHANGED <<runVars, bldVars, attrVars, treeVars, fixVars, lastVars, resVars, nodeVars, bootVars,
                 bitmap, bpb, free_cluster_size, current_cluster, cluster_start, cluster_end,
                 unallocated, free_i, current_offset, free_ranges>>

\* the size in bytes of a cluster range (unallocated.rs line 19)
FreeSize(cluster_range, cluster_size) ==
  (1 + cluster_range.end - cluster_range.start) * cluster_size

\* freespace_builder: one cluster range (unallocated.rs lines 16-24)
FreespaceStep ==
  /\ frres = "ranges"
  /\ free_i <= Len(unallocated)
  /\ LET cluster_range == unallocated[free_i]
         off == cluster_range.start * free_cluster_size
         size == FreeSize(cluster_range, free_cluster_size)
     IN  /\ free_ranges' = Append(free_ranges,
              [range |-> [start |-> current_offset, end |-> current_offset + size],
               offset |-> off, builder |-> "partition"])
         /\ current_offset' = current_offset + size
  /\ free_i' = free_i + 1
  /\ UNCHANGED <<runVars, bldVars, attrVars, treeVars, fixVars, lastVars, resVars, nodeVars, bootVars,
                 bitmap, bpb, free_cluster_size, current_cluster, cluster_start, cluster_end,
                 unallocated, frres>>

\* freespace_builder returns (unallocated.rs line 26)
FreespaceReturn ==
  /\ frres = "ranges"
  /\ free_i > Len(unallocated)
  /\ frres' = "done"
  /\ UNCHANGED <<runVars, bldVars, attrVars, treeVars, fixVars, lastVars, resVars, nodeVars, bootVars,
                 bitmap, bpb, free_cluster_size, current_cluster, cluster_start, cluster_end,
                 unallocated, free_i, current_offset, free_ranges>>

InitFree ==
  /\ IdleRun
  /\ IdleBuilder
  /\ IdleAttr
  /\ IdleTree
  /\ IdleFixup
  /\ IdleLast
  /\ IdleResident
  /\ IdleNode
  /\ IdleBoot
  /\ bitmap \in SeqsUpTo(BitmapBytes, MaxBitmapBytes)
  /\ bpb \in Bpbs
  /\ free_cluster_size = 0
  /\ current_cluster = 0
  /\ cluster_start = 0
  /\ cluster_end = 0
  /\ unallocated = <<>>
  /\ free_i = 1
  /\ current_offset = 0
  /\ free_ranges = <<>>
  /\ frres = "call"

NextFree == FreespaceStart \/ BitmapStep \/ BitmapReturn \/ FreespaceStep \/ FreespaceReturn

SpecFree == InitFree /\ [][NextFree]_vars

(***************************************************************************)
(* Properties of the free space                                            *)
(***************************************************************************)
\* cluster c is unallocated: bit c % 8 of byte c / 8 is 0
Unallocated(b, c) == Bit(b[c \div 8 + 1], c % 8) = 0

\* the maximal ranges of unallocated clusters, in increasing order
RunStarts(b) ==
  {c \in 0..(8 * Len(b) - 1) : Unallocated(b, c) /\ (c = 0 \/ ~Unallocated(b, c - 1))}
RunEnd(b, s) ==
  CHOOSE e \in s..(8 * Len(b) - 1) :
    /\ \A c \in s..e : Unallocated(b, c)
    /\ e = 8 * Len(b) - 1 \/ ~Unallocated(b, e + 1)
RECURSIVE RunsFrom(_, _)
RunsFrom(b, starts) ==
  IF starts = {} THEN <<>>
  ELSE LET s == CHOOSE x \in starts : \A y \in starts : x <= y
       IN  <<[start |-> s, end |-> RunEnd(b, s)]>> \o RunsFrom(b, starts \ {s})
UnallocatedRuns(b) == RunsFrom(b, RunStarts(b))

\* C16: Bitmap::new returns the maximal ranges of the clusters whose bit is
\* 0, disjoint and in increasing order: every unallocated cluster, cluster 0
\* and a run that reaches the end of the bitmap included, is in one range and
\* no allocated cluster is in any; the bitmap 0xF0 0x0F gives 0..3 and 12..15.
CE_C16 ==
  frres \in {"ranges", "done"} => unallocated = UnallocatedRuns(bitmap)

\* C17: the freespace VF maps the cluster ranges, in order, to consecutive
\* destination ranges from byte 0 on, the range of the clusters start..end
\* being taken from the volume at start * cluster_size with the length
\* (end - start + 1) * cluster_size, cluster_size being the cluster size of
\* the boot sector, sector_per_cluster * bytes_per_sector.
CE_C17 ==
  frres = "done" =>
    LET cs == ClusterSize(bpb)
        bytes(j) == (unallocated[j].end - unallocated[j].start + 1) * cs
        RECURSIVE dest(_)
        dest(j) == IF j = 1 THEN 0 ELSE dest(j - 1) + bytes(j - 1)
    IN  /\ Len(free_ranges) = Len(unallocated)
        /\ \A j \in 1..Len(free_ranges) :
             /\ free_ranges[j].range = [start |-> dest(j), end |-> dest(j) + bytes(j)]
             /\ free_ranges[j].offset = unallocated[j].start * cs

(***************************************************************************)
(* bootsector.rs: BootSector::from_file.                                   *)
(* The sector is the fields read from the 512 bytes.  u32 values are words *)
(* of U32Bits bits and i8 values words of I8Bits bits; sector sizes are    *)
(* counted in a unit of which SectorUnit stand for 512 bytes.  A negation  *)
(* or a shift that overflows panics in a build with overflow checks; in a  *)
(* build without, the negation wraps and the shift amount is taken modulo  *)
(* the width.  sector_per_cluster * bytes_per_sector * clusters is a       *)
(* product of a u8, a u16 and a positive i8: it fits a u32.                *)
(***************************************************************************)
EndOfSector == 43605   \* 0xAA55
SectorUnit == MaxSector \div 2

\* `byte as i8` (lines 84, 89)
AsI8(byte) == IF byte >= Pow(2, I8Bits - 1) THEN byte - Pow(2, I8Bits) ELSE byte

\* the bytes of the clusters-per-record fields: 0, 1, the largest positive
\* value, the smallest negative value, -1, and the negative values whose
\* power of two is the first not to fit a u32 and the last to fit
ClusterBytes ==
  {0, 1, Pow(2, I8Bits - 1) - 1, Pow(2, I8Bits - 1), Pow(2, I8Bits) - 1,
   Pow(2, I8Bits) - U32Bits, Pow(2, I8Bits) - U32Bits + 1}

Sectors ==
  [end_of_sector : {0, EndOfSector},
   bytes_per_sector : 0..MaxSector,
   sector_per_cluster : 0..MaxSectorsPerCluster,
   total_sectors : {0, MaxTotalSectors},
   mft_logical_cluster_number : {0, MaxTotalSectors + 1},
   mft_mirror_logical_cluster_number : {0, MaxTotalSectors + 1},
   clusters_per_mft_record : ClusterBytes,
   clusters_per_index_record : ClusterBytes]

\* the checks of from_file in their order (lines 55-93): the text of the
\* BootSectorInvalid returned, or "" when the sector passes them all
BootSectorInvalid(s) ==
  IF s.end_of_sector # EndOfSector THEN "end of sector"
  ELSE IF s.bytes_per_sector = 0 \/ s.bytes_per_sector % SectorUnit # 0
    THEN "bytes per sector"
  ELSE IF s.sector_per_cluster = 0 THEN "sector per cluster"
  ELSE IF s.total_sectors = 0 THEN "total sectors value"
  ELSE IF /\ s.mft_logical_cluster_number > s.total_sectors
          /\ s.mft_mirror_logical_cluster_number > s.total_sectors
    THEN "MFT logical cluster number"
  ELSE IF AsI8(s.clusters_per_mft_record) = 0 THEN "invalid cluster per MFT record"
  ELSE IF AsI8(s.clusters_per_index_record) = 0 THEN "invalid cluster per index buffer"
  ELSE ""

\* -clusters as i8 overflows (lines 105, 114)
NegOverflows(clusters) == -clusters >= Pow(2, I8Bits - 1)

\* the negation, wrapped
Neg(clusters) == IF NegOverflows(clusters) THEN clusters ELSE -clusters

\* 1 << amount overflows a u32 (lines 105, 114)
ShiftOverflows(amount) == amount < 0 \/ amount >= U32Bits

\* the shift, its amount taken modulo the width
Shl(amount) == Pow(2, amount % U32Bits)

\* computing the record size overflows (lines 99-115)
RecordSizeOverflows(clusters) ==
  clusters <= 0 /\ (NegOverflows(clusters) \/ ShiftOverflows(Neg(clusters)))

\* the record size of a build without overflow checks (lines 99-115)
RecordSize(clusters, cluster_size) ==
  IF clusters > 0 THEN clusters * cluster_size ELSE Shl(Neg(clusters))

\* from_file (lines 46-139)
BootFromFile ==
  /\ bsres = "call"
  /\ LET invalid == BootSectorInvalid(sector)
         cluster_size == ClusterSize(sector)
         mft_clusters == AsI8(sector.clusters_per_mft_record)
         index_clusters == AsI8(sector.clusters_per_index_record)
     IN  IF invalid # ""
           THEN /\ bsres' = invalid
                /\ UNCHANGED boot_sector
           ELSE \/ /\ RecordSizeOverflows(mft_clusters) \/ RecordSizeOverflows(index_clusters)
                   /\ bsres' = "panic"
                   /\ UNCHANGED boot_sector
                \/ /\ boot_sector' = Some([cluster_size |-> cluster_size,
                                           mft_record_size |-> RecordSize(mft_clusters, cluster_size),
                                           index_record_size |-> RecordSize(index_clusters, cluster_size)])
                   /\ bsres' = "ok"
  /\ UNCHANGED <<runVars, bldVars, attrVars, treeVars, fixVars, lastVars, resVars, nodeVars, freeVars,
                 sector>>

InitBoot ==
  /\ IdleRun
  /\ IdleBuilder
  /\ IdleAttr
  /\ IdleTree
  /\ IdleFixup
  /\ IdleLast
  /\ IdleResident
  /\ IdleNode
  /\ IdleFree
  /\ sector \in Sectors
  /\ boot_sector = None
  /\ bsres = "call"

NextBoot == BootFromFile

SpecBoot == InitBoot /\ [][NextBoot]_vars

(***************************************************************************)
(* Properties of the boot sector                                           *)
(***************************************************************************)
\* the first check of the list the sector fails, "" if none
FirstFailing(s) ==
  LET failing ==
        <<s.end_of_sector # 43605,
          ~(s.bytes_per_sector # 0 /\ s.bytes_per_sector % SectorUnit = 0),
          s.sector_per_cluster = 0,
          s.total_sectors = 0,
          s.mft_logical_cluster_number > s.total_sectors
            /\ s.mft_mirror_logical_cluster_number > s.total_sectors,
          s.clusters_per_mft_record = 0,
          s.clusters_per_index_record = 0>>
      texts == <<"end of sector", "bytes per sector", "sector per cluster",
                 "total sectors value", "MFT logical cluster number",
                 "invalid cluster per MFT record", "invalid cluster per index buffer">>
      which == {k \in 1..Len(failing) : failing[k]}
  IN  IF which = {} THEN "" ELSE texts[Lowest(which)]

\* C18: from_file succeeds exactly when the sector passes every check
\* (trailer 0xAA55, bytes_per_sector, sector_per_cluster, total_sectors, MFT
\* cluster numbers, clusters per MFT record, clusters per index record) and
\* otherwise fails with BootSectorInvalid naming the first check that fails;
\* a trailer 0x00 0x00 gives "end of sector" whatever the other fields.
CE_C18 ==
  bsres # "call" =>
    /\ (bsres = "ok") <=> (FirstFailing(sector) = "")
    /\ FirstFailing(sector) # "" => bsres = FirstFailing(sector)
    /\ sector.end_of_sector = 0 => bsres = "end of sector"

\* C19: for every accepted boot sector cluster_size is sector_per_cluster *
\* bytes_per_sector and the MFT and index record sizes are clusters *
\* cluster_size for a positive clusters-per-record value and 2^(-clusters)
\* for a negative one, whatever that value, computed in u32 without overflow
\* or wrap-around.
CE_C19 ==
  (bsres # "call" /\ FirstFailing(sector) = "") =>
    LET cs == sector.sector_per_cluster * sector.bytes_per_sector
        size(byte) == LET clusters == AsI8(byte)
                      IN  IF clusters > 0 THEN clusters * cs ELSE Pow(2, -clusters)
    IN  /\ bsres = "ok"
        /\ boot_sector = Some([cluster_size |-> cs,
                               mft_record_size |-> size(sector.clusters_per_mft_record),
                               index_record_size |-> size(sector.clusters_per_index_record)])

(***************************************************************************)
(* mftentry.rs: MftEntry::from_offset, is_valid and contents.  The 32-bit  *)
(* fields of the record are words of U32Bits bits.  What                   *)
(* MftAttributeContent::from_file finds at an offset of the record is      *)
(* chosen when the offset is first read and is the same at every later     *)
(* read, the record being a file that does not change.                     *)
(***************************************************************************)
MFT_SIGNATURE_FILE == 1162627398
MFT_SIGNATURE_BAAD == 1145127234

\* u32::MAX, the used_size 0xffffffff of an unused entry
U32Max == Pow(2, U32Bits) - 1

Signatures == {MFT_SIGNATURE_FILE, MFT_SIGNATURE_BAAD, 0}
UsedSizes == (0..MaxUsedSize) \cup {U32Max}
AttrLengths == (0..MaxAttrLength) \cup ((U32Max - MaxAttrLength)..U32Max)
Headers ==
  [signature : Signatures, first_attribute_offset : 0..MaxFirstAttribute,
   used_size : UsedSizes]

\* the errors of MftAttribute::from_file: the terminator 0xffffffff, an
\* unknown type, a resident flag that is neither 0 nor 1, a failed read
AttributeErrors ==
  {"MftAttributesEnd", "MftAttributeUnknownType", "MftAttributeDataType", "read"}
ParseResults ==
  {[ok |-> FALSE, length |-> 0, err |-> e] : e \in AttributeErrors}
    \cup {[ok |-> TRUE, length |-> l, err |-> ""] : l \in AttrLengths}

from_offset ==
  /\ eres = "call"
  /\ IF header.used_size = U32Max
       THEN /\ eres' = "MftUnusedEntry"
            /\ UNCHANGED mft_entry
       ELSE /\ mft_entry' = Some(header)
            /\ eres' = "parsed"
  /\ UNCHANGED <<runVars, bldVars, attrVars, treeVars, fixVars, resVars, nodeVars,
                 freeVars, bootVars, stdVars, listVars, header, valid, parsed_at,
                 contents_offset, entry_contents>>

is_valid(e) ==
  e.signature # MFT_SIGNATURE_FILE /\ e.signature # MFT_SIGNATURE_BAAD

EntryIsValid ==
  /\ eres = "parsed"
  /\ valid' = Some(is_valid(Unwrap(mft_entry)))
  /\ eres' = "checked"
  /\ UNCHANGED <<runVars, bldVars, attrVars, treeVars, fixVars, resVars, nodeVars,
                 freeVars, bootVars, stdVars, listVars, header, mft_entry, parsed_at,
                 contents_offset, entry_contents>>

ContentsStart ==
  /\ eres = "checked"
  /\ contents_offset' = Unwrap(mft_entry).first_attribute_offset
  /\ entry_contents' = <<>>
  /\ eres' = "loop"
  /\ UNCHANGED <<runVars, bldVars, attrVars, treeVars, fixVars, resVars, nodeVars,
                 freeVars, bootVars, stdVars, listVars, header, mft_entry, valid,
                 parsed_at>>

\* the record read at an offset: what was found there before, anything the
\* first time
ReadAt(o) ==
  IF o \in DOMAIN parsed_at THEN {parsed_at[o]} ELSE ParseResults

\* one iteration of the loop of contents; offset += mft_attribute_length is a
\* u32 addition, which panics in a build that checks overflows and wraps
\* otherwise; an offset reached a second time is followed by the same
\* iterations as the first time, without end
ContentsStep ==
  /\ eres = "loop"
  /\ contents_offset < Unwrap(mft_entry).used_size
  /\ \E content \in ReadAt(contents_offset) :
       /\ parsed_at' = [o \in DOMAIN parsed_at \cup {contents_offset} |->
                          IF o = contents_offset THEN content ELSE parsed_at[o]]
       /\ IF ~content.ok
            THEN /\ eres' = "done"
                 /\ UNCHANGED <<contents_offset, entry_contents>>
            ELSE /\ entry_contents' =
                      Append(entry_contents,
                             [offset |-> contents_offset, length |-> content.length])
                 /\ IF content.length = 0
                      THEN /\ eres' = "done"
                           /\ UNCHANGED contents_offset
                      ELSE IF contents_offset + content.length > U32Max
                        THEN \/ /\ eres' = "panic"
                                /\ UNCHANGED contents_offset
                             \/ LET wrapped == (contents_offset + content.length) % (U32Max + 1)
                                IN  /\ contents_offset' = wrapped
                                    /\ eres' = IF /\ wrapped \in DOMAIN parsed_at'
                                                  /\ wrapped < Unwrap(mft_entry).used_size
                                                 THEN "diverges" ELSE "loop"
                        ELSE /\ contents_offset' = contents_offset + content.length
                             /\ eres' = "loop"
  /\ UNCHANGED <<runVars, bldVars, attrVars, treeVars, fixVars, resVars, nodeVars,
                 freeVars, bootVars, stdVars, listVars, header, mft_entry, valid>>

ContentsReturn ==
  /\ eres = "loop"
  /\ contents_offset >= Unwrap(mft_entry).used_size
  /\ eres' = "done"
  /\ UNCHANGED <<runVars, bldVars, attrVars, treeVars, fixVars, resVars, nodeVars,
                 freeVars, bootVars, stdVars, listVars, header, mft_entry, valid,
                 parsed_at, contents_offset, entry_contents>>

InitEntry ==
  /\ IdleRun
  /\ IdleBuilder
  /\ IdleAttr
  /\ IdleTree
  /\ IdleFixup
  /\ IdleResident
  /\ IdleNode
  /\ IdleFree
  /\ IdleBoot
  /\ IdleStandard
  /\ IdleList
  /\ header \in Headers
  /\ mft_entry = <<>>
  /\ valid = <<>>
  /\ parsed_at = <<>>
  /\ contents_offset = 0
  /\ entry_contents = <<>>
  /\ eres = "call"

NextEntry ==
  \/ from_offset
  \/ EntryIsValid
  \/ ContentsStart
  \/ ContentsStep
  \/ ContentsReturn

SpecEntry == InitEntry /\ [][NextEntry]_vars

\* C21: contents returns the attributes parsed at the offsets o_0 =
\* first_attribute_offset, o_(i+1) = o_i + length_i, each below used_size; it
\* ends at the first attribute that fails to parse, which is not returned,
\* and parses nothing after an attribute of length 0.
CE_C21 ==
  eres = "done" =>
    LET c == entry_contents
        e == Unwrap(mft_entry)
        n == Len(c)
        next == IF n = 0 THEN e.first_attribute_offset
                ELSE c[n].offset + c[n].length
    IN  /\ n > 0 => c[1].offset = e.first_attribute_offset
        /\ \A i \in 1..(n - 1) :
             /\ c[i + 1].offset = c[i].offset + c[i].length
             /\ c[i].length # 0
        /\ \A i \in 1..n :
             /\ c[i].offset < e.used_size
             /\ parsed_at[c[i].offset].ok
             /\ parsed_at[c[i].offset].length = c[i].length
        /\ \/ n > 0 /\ c[n].length = 0
           \/ next >= e.used_size
           \/ next \in DOMAIN parsed_at /\ ~parsed_at[next].ok

\* C23: from_offset parses a record of signature BAAD and is_valid is false
\* for it; is_valid is true for a record of signature FILE; the signature of
\* every parsed entry is FILE or BAAD.
CE_C23 ==
  /\ (eres = "call" /\ header.signature = MFT_SIGNATURE_BAAD /\ header.used_size # U32Max)
       => ENABLED from_offset
  /\ mft_entry # None =>
       Unwrap(mft_entry).signature \in {MFT_SIGNATURE_FILE, MFT_SIGNATURE_BAAD}
  /\ valid # None =>
       /\ Unwrap(mft_entry).signature = MFT_SIGNATURE_BAAD => Unwrap(valid) = FALSE
       /\ Unwrap(mft_entry).signature = MFT_SIGNATURE_FILE => Unwrap(valid) = TRUE

\* C28: contents terminates for every record: the 32-bit offset of the loop
\* strictly increases from one attribute to the next and never wraps, so that
\* no offset is read twice, whatever the lengths of the attributes.
CE_C28 ==
  /\ eres \notin {"panic", "diverges"}
  /\ \A i \in 1..(Len(entry_contents) - 1) :
       entry_contents[i + 1].offset > entry_contents[i].offset

(***************************************************************************)
(* attributes/standard.rs: StandardInformation::new.  The sizes are those  *)
(* of the code, in bytes; the values of the fields read are left out, only *)
(* the presence of the four optional fields is kept.                       *)
(***************************************************************************)
BasicSize == 48
ExtendedSize == 72

\* the size check at the head of new
StandardInvalidSize(size) == size < BasicSize /\ size # ExtendedSize

\* the fields of the StandardInformation built for a content of this size
StandardFields(size) ==
  IF size = ExtendedSize
    THEN [owner_id |-> Some(0), security_id |-> Some(0),
          quota_charged |-> Some(0), usn |-> Some(0)]
    ELSE [owner_id |-> None, security_id |-> None,
          quota_charged |-> None, usn |-> None]

\* new: the size check, then the reads of the content and the conversions
\* of the four timestamps, any of which can fail
StandardNew ==
  /\ sres = "call"
  /\ IF StandardInvalidSize(std_size)
       THEN /\ sres' = "MftAttributeStandardInvalidSize"
            /\ UNCHANGED std_info
       ELSE \E readable \in BOOLEAN :
              IF readable
                THEN /\ std_info' = Some(StandardFields(std_size))
                     /\ sres' = "ok"
                ELSE /\ sres' = "read"
                     /\ UNCHANGED std_info
  /\ UNCHANGED <<runVars, bldVars, attrVars, treeVars, fixVars, resVars, nodeVars,
                 freeVars, bootVars, entVars, listVars, std_size>>

InitStandard ==
  /\ IdleRun
  /\ IdleBuilder
  /\ IdleAttr
  /\ IdleTree
  /\ IdleFixup
  /\ IdleResident
  /\ IdleNode
  /\ IdleFree
  /\ IdleBoot
  /\ IdleEntry
  /\ IdleList
  /\ std_size \in 0..MaxStandardSize
  /\ std_info = <<>>
  /\ sres = "call"

NextStandard == StandardNew

SpecStandard == InitStandard /\ [][NextStandard]_vars

\* C22: StandardInformation::new succeeds only for a content of exactly 48
\* or 72 bytes and fails on the size for every other one; the fields
\* owner_id, security_id, quota_charged and usn are present exactly when the
\* size is 72.
CE_C22 ==
  /\ sres = "ok" =>
       /\ std_size \in {BasicSize, ExtendedSize}
       /\ \A f \in {"owner_id", "security_id", "quota_charged", "usn"} :
            Unwrap(std_info)[f] # None <=> std_size = ExtendedSize
  /\ (sres \notin {"call", "ok"} /\ std_size \notin {BasicSize, ExtendedSize})
       => sres = "MftAttributeStandardInvalidSize"

(***************************************************************************)
(* The run-list decoder and the non-resident builder on the documented     *)
(* byte strings: the two strings, each as it is or with one byte left out, *)
(* cut at any length, followed or not by the byte 0x00 that ends a list.   *)
(* The builder is run on the decoded runs that fit the words of the model. *)
(***************************************************************************)
DocSparse == <<1, 2, 17, 4, 1>>
DocNegative == <<33, 16, 0, 32, 0, 17, 8, 255>>

Terminated(d) == d \o <<0>>
Without(d, k) == SubSeq(d, 1, k - 1) \o SubSeq(d, k + 1, Len(d))
Variants(d) == {d} \cup {Without(d, k) : k \in 1..Len(d)}
Cuts(d) == {SubSeq(d, 1, n) : n \in 0..Len(d)}
DocData ==
  UNION {Cuts(Terminated(v)) : v \in Variants(DocSparse) \cup Variants(DocNegative)}

\* the runs the words of the builder can hold
FitsWords(rs) ==
  /\ (MaxVnc + SumLengths(rs)) * MaxCluster < U64
  /\ \A i \in 1..Len(rs) : rs[i].offset > -U64 /\ rs[i].offset * MaxCluster < U64

\* Ok(NonResident{vnc_start, .., runs}) and the content made of it, on which
\* builder() is then called
FromFileReturn ==
  /\ dres = "ok"
  /\ bres = "idle"
  /\ FitsWords(runs)
  /\ \E v \in 0..MaxVnc : non_resident' = [vnc_start |-> v, runs |-> runs]
  /\ builders' \in BuilderSets
  /\ partition_size' \in {MaxPartition \div 2, MaxPartition}
  /\ bres' = "call"
  /\ UNCHANGED <<runVars, attrVars, treeVars, fixVars, moreVars, ri, total_size,
                 file_ranges>>

InitRunDoc ==
  /\ IdleMore
  /\ data \in DocData
  /\ pos = 0
  /\ runs = <<>>
  /\ run_previous_offset = 0
  /\ dres = "loop"
  /\ IdleBuilder
  /\ IdleAttr
  /\ IdleTree
  /\ IdleFixup

NextRunDoc ==
  \/ RunListStep
  \/ FromFileReturn
  \/ BuilderStart
  \/ BuilderStep
  \/ BuilderReturn

SpecRunDoc == InitRunDoc /\ [][NextRunDoc]_vars

\* C24, as stated: the bytes 0x01 0x02 0x11 0x04 0x01 decode to the runs
\* [{offset=2, length=1}, {offset=0, length=4}], and the stream holds
\* 4 * cluster_size zero bytes after its first cluster.
CE_C24 ==
  data \in {DocSparse, Terminated(DocSparse)} =>
    /\ dres = "ok" =>
         runs = <<[offset |-> 2, length |-> 1], [offset |-> 0, length |-> 4]>>
    /\ bres = "ok" =>
         /\ Len(file_ranges) = 2
         /\ file_ranges[1].builder = "partition"
         /\ file_ranges[2].builder = "zero"
         /\ file_ranges[2].range.end - file_ranges[2].range.start
              = 4 * Unwrap(builders.cluster_size)

\* C24, amended: the bytes 0x01 0x02 0x11 0x04 0x01 followed by the
\* terminator 0x00 decode to the runs [{offset=0, length=2}, {offset=1,
\* length=4}]: a sparse run of 2 clusters, then 4 clusters at volume
\* cluster 1; the stream built from them starts with 2 * cluster_size zero
\* bytes, followed by 4 * cluster_size bytes taken from volume cluster 1.
Thm_C24 ==
  data = Terminated(DocSparse) =>
    /\ dres # "err"
    /\ dres = "ok" =>
         /\ runs = <<[offset |-> 0, length |-> 2], [offset |-> 1, length |-> 4]>>
         /\ pos = Len(data)
    /\ bres = "ok" =>
         LET cs == Unwrap(builders.cluster_size)
             start == non_resident.vnc_start * cs
         IN  file_ranges =
               <<[range |-> [start |-> start, end |-> start + 2 * cs],
                  offset |-> 0, builder |-> "zero"],
                 [range |-> [start |-> start + 2 * cs, end |-> start + 6 * cs],
                  offset |-> cs, builder |-> "partition"]>>

Wit_C24 ==
  /\ data = Terminated(DocSparse)
  /\ dres = "ok"
  /\ bres = "ok"
  /\ Len(file_ranges) = 2

\* C25, as stated: the bytes 0x21 0x10 0x00 0x20 0x00 0x11 0x08 0xFF decode
\* to two non-sparse runs, the second at the absolute offset
\* 0x20 + (-1) = 0x1F.
CE_C25 ==
  (data = DocNegative /\ dres = "ok") =>
    /\ Len(runs) = 2
    /\ runs[1].offset = 32
    /\ runs[2].offset = 31

\* C25, amended: the bytes 0x21 0x10 0x00 0x20 0x00 0x11 0x08 0xFF decode to
\* the single non-sparse run {offset=0x2000, length=0x10}, the header 0x21
\* taking a one-byte length and the two-byte offset 0x00 0x20 and the fifth
\* byte 0x00 ending the list; without that byte and with a terminator
\* (0x21 0x10 0x00 0x20 0x11 0x08 0xFF 0x00) they decode to two non-sparse
\* runs, the second {offset=0x2000 + (-1) = 0x1FFF, length=8}.
Thm_C25 ==
  /\ data = DocNegative =>
       /\ dres # "err"
       /\ dres = "ok" =>
            /\ runs = <<[offset |-> 8192, length |-> 16]>>
            /\ pos = 5
  /\ data = Terminated(Without(DocNegative, 5)) =>
       /\ dres # "err"
       /\ dres = "ok" =>
            runs = <<[offset |-> 8192, length |-> 16], [offset |-> 8191, length |-> 8]>>

Wit_C25 ==
  /\ data = Terminated(Without(DocNegative, 5))
  /\ dres = "ok"
  /\ Len(runs) = 2
  /\ runs[2].offset < runs[1].offset

(***************************************************************************)
(* Properties of the tree building: the tree as a whole                    *)
(***************************************************************************)
\* the nodes create_nodes made
CreatedNodes == UNION {NodesOf(id) : id \in DOMAIN nodes_ids}

\* the number of add_child_from_id calls that attached a node
AttachCount(node) ==
  BagCardinality([e \in {x \in BagToSet(edges) : x[2] = node} |-> CopiesIn(e, edges)])

\* the edges of the tree under the node "ntfs": those of link_nodes and the
\* one that put the node "orphan" under it (lib.rs line 77)
TreeEdges == BagToSet(edges) \cup {<<ntfs_node_id, orphan_node_id>>}

\* the nodes reached from a set of nodes along the edges
RECURSIVE ReachFrom(_)
ReachFrom(S) ==
  LET next == S \cup {e[2] : e \in {x \in TreeEdges : x[1] \in S}}
  IN  IF next = S THEN S ELSE ReachFrom(next)

Descendants(node) == ReachFrom({e[2] : e \in {x \in TreeEdges : x[1] = node}})

\* C26: after create_nodes and link_nodes every node create_nodes made has
\* been attached exactly once, to exactly one parent: none is left unattached
\* and none is attached twice, whatever the number of Data streams of entry 5
\* and of the other entries.
CE_C26 ==
  tphase = "done" =>
    \A node \in CreatedNodes :
      /\ AttachCount(node) = 1
      /\ Cardinality(ParentsOf(node)) = 1

\* C27: after create_nodes and link_nodes the edges hold no cycle and every
\* node create_nodes made is reached from the node "ntfs", whatever parent
\* ids the FileNames carry, entries that name each other as parent included.
CE_C27 ==
  tphase = "done" =>
    /\ \A node \in CreatedNodes : node \notin Descendants(node)
    /\ CreatedNodes \subseteq ReachFrom({ntfs_node_id})

(***************************************************************************)
(* attributes/list.rs: AttributeList::new.  An item is what                *)
(* AttributeListItem::new finds at the position of the file: an error (the *)
(* type 0xffffffff, an unknown type, a failed read) or the item with its   *)
(* size field.  The content holds content.size() bytes, so the 26 bytes of *)
(* an item cannot be read closer than 26 bytes to its end.                 *)
(***************************************************************************)
ItemHeader == 26

ItemErrors == {"MftAttributeListEnd", "MftAttributeUnknownType", "read"}
ItemSizes == {0, ItemHeader - 1, ItemHeader, ItemHeader + MaxNameBytes}
ItemResults ==
  {[ok |-> FALSE, size |-> 0, err |-> e] : e \in ItemErrors}
    \cup {[ok |-> TRUE, size |-> s, err |-> ""] : s \in ItemSizes}
ListSizes == {k * ItemHeader + r : k \in 0..MaxListItems, r \in {0, 1, MaxNameBytes}}

\* AttributeListItem::new at a position of the content
ItemAt(p) ==
  IF p + ItemHeader > list_size
    THEN {[ok |-> FALSE, size |-> 0, err |-> "read"]}
    ELSE ItemResults

\* one iteration of the loop of new; the seek to previous_offset + size of an
\* item of size 0 leaves the file where the item was read, and the same item
\* is read again at every later iteration, without end
ListStep ==
  /\ lres = "loop"
  /\ list_pos < list_size
  /\ \E item \in ItemAt(list_pos) :
       /\ items_at' = [p \in DOMAIN items_at \cup {list_pos} |->
                         IF p = list_pos THEN item ELSE items_at[p]]
       /\ IF item.ok
            THEN /\ list_pos' = list_pos + item.size
                 /\ list_attributes' =
                      Append(list_attributes, [pos |-> list_pos, size |-> item.size])
                 /\ lres' = IF item.size = 0 THEN "diverges" ELSE "loop"
            ELSE /\ lres' = "done"
                 /\ UNCHANGED <<list_pos, list_attributes>>
  /\ UNCHANGED <<runVars, bldVars, attrVars, treeVars, fixVars, resVars, nodeVars,
                 freeVars, bootVars, entVars, stdVars, list_size>>

\* the end of the loop: Ok(attributes)
ListReturn ==
  /\ lres = "loop"
  /\ list_pos >= list_size
  /\ lres' = "done"
  /\ UNCHANGED <<runVars, bldVars, attrVars, treeVars, fixVars, resVars, nodeVars,
                 freeVars, bootVars, entVars, stdVars, list_size, items_at, list_pos,
                 list_attributes>>

InitList ==
  /\ IdleRun
  /\ IdleBuilder
  /\ IdleAttr
  /\ IdleTree
  /\ IdleFixup
  /\ IdleResident
  /\ IdleNode
  /\ IdleFree
  /\ IdleBoot
  /\ IdleEntry
  /\ IdleStandard
  /\ list_size \in ListSizes
  /\ items_at = <<>>
  /\ list_pos = 0
  /\ list_attributes = <<>>
  /\ lres = "loop"

NextList == ListStep \/ ListReturn

SpecList == InitList /\ [][NextList]_vars

\* C29: AttributeList::new terminates for every content: the read position
\* strictly advances after each accepted item, an item whose size field is 0
\* or below the 26 bytes of the header included, and the loop ends at the
\* type 0xffffffff, at the first item that fails to parse or at the end of
\* the content.
CE_C29 ==
  /\ lres # "diverges"
  /\ \A i \in 1..Len(list_attributes) :
       LET after == IF i < Len(list_attributes) THEN list_attributes[i + 1].pos
                    ELSE list_pos
       IN  after > list_attributes[i].pos
  /\ lres = "done" =>
       \/ list_pos >= list_size
       \/ list_pos \in DOMAIN items_at /\ ~items_at[list_pos].ok

====
